---------------------------- MODULE Spec2Model ----------------------------
(***************************************************************************)
(* Payroll run orchestration of iammrjude/payroll-system.                  *)
(*                                                                         *)
(* The persistent store (organizations, employees, tax_configs,            *)
(* payroll_adjustments, payroll_runs, payroll_slips) is the shared state.  *)
(* Every .await of run_payroll and process_payroll_background is one step, *)
(* so that concurrent requests and background tasks interleave exactly at  *)
(* the points where the tokio tasks can.                                   *)
(*                                                                         *)
(* Money is an integer number of currency units.  A rate r stands for      *)
(* r / RateUnit percent; the inputs are chosen so that every division of   *)
(* calculate is exact, as it is in rust_decimal.                           *)
(*                                                                         *)
(* A store statement can fail in the model exactly where the code observes *)
(* its result (match, unwrap_or, unwrap_or_default, ok()).  The UPDATE     *)
(* statements whose result the code discards (let _ = ...) are applied.    *)
(*                                                                         *)
(* vars is the store, the requests in flight and the tasks.  The responses *)
(* the callers have received are an observation of the handler, followed   *)
(* by TriggerSpec only; Spec and FairSpec follow the store and the tasks.  *)
(***************************************************************************)
EXTENDS Integers, Sequences, FiniteSets, Bags, TLC

VARIABLES
    wallet,        \* organizations.wallet_balance, per organization
    employees,     \* employees table: id -> [organization_id, base_salary, is_active]
    tax_configs,   \* tax_configs table: set of rows, at most one per organization
    adjustments,   \* payroll_adjustments table: set of rows
    runs,          \* payroll_runs table: sequence of rows, the index is the run id
    slips,         \* payroll_slips table: bag of rows
    checked,       \* run_payroll requests past the SELECT, before the INSERT
    orch,          \* locals of each spawned process_payroll_background task
    transfers,     \* transfer requests the gateway has received
    debits,        \* wallet decrements the store has applied
    emails,        \* payslip emails handed to the notification relay
    responses      \* HTTP responses run_payroll has returned to its callers

vars == <<wallet, employees, tax_configs, adjustments, runs, slips,
          checked, orch, transfers, debits, emails>>

-----------------------------------------------------------------------------
(* Bounds and the finite universe of the model *)

MaxRuns == 2

Orgs == {"o1", "o2", "o3"}

Periods == {"2024-01", "2024-02"}

EmployeeIds == {"e1", "e2", "e3", "e4"}

\* The employees rows in the order they were inserted.
EmployeeOrder == <<"e1", "e2", "e3", "e4">>

\* organizations.wallet_balance at the first trigger.  register_organization
\* inserts 0 and no statement of the program credits a wallet: the balances
\* are those the store holds after the wallets were funded out of band.
InitialBalances ==
    [o \in Orgs |-> CASE o = "o1" -> 600 [] o = "o2" -> 100 [] o = "o3" -> 0]

RateUnit == 100

\* Option::None of a gateway reference
NoRef == << >>

None == "none"

ZeroRates == [paye_rate |-> 0, pension_rate |-> 0, nhf_rate |-> 0, nhis_rate |-> 0]

\* The additions filter without its OtherAddition pattern.
AdditionTypesWithoutOther == {"overtime", "bonus", "commission"}

AdditionTypes == {"overtime", "bonus", "commission", "other_addition"}

DeductionTypes == {"late_day_deduction", "unpaid_leave_deduction", "other_deduction"}

AdjustmentType == AdditionTypes \cup DeductionTypes

PayrollStatus == {"pending", "processing", "completed", "failed"}

-----------------------------------------------------------------------------
(* Calculation engine *)

hundred == 100

RECURSIVE SumAmounts(_)
SumAmounts(S) ==
    IF S = {} THEN 0
    ELSE LET a == CHOOSE x \in S : TRUE
         IN  a.amount + SumAmounts(S \ {a})

\* Max without the comparison.
MaxFirst(a, b) == a

\* Decimal::max
Max(a, b) == IF a >= b THEN a ELSE b

\* calculate with PAYE rounded down to whole thousands before it is summed.
calculateRoundsPaye(employee, adjs, tax_config) ==
    LET total_additions == SumAmounts({a \in adjs : a.adjustment_type \in AdditionTypes})
        other_deductions == SumAmounts({a \in adjs : a.adjustment_type \in DeductionTypes})
        gross_salary == employee.base_salary + total_additions
        paye_tax ==
            ((gross_salary * tax_config.paye_rate) \div (hundred * RateUnit * 1000)) * 1000
        pension_deduction == (gross_salary * tax_config.pension_rate) \div (hundred * RateUnit)
        nhf_deduction == (gross_salary * tax_config.nhf_rate) \div (hundred * RateUnit)
        nhis_deduction == (gross_salary * tax_config.nhis_rate) \div (hundred * RateUnit)
        total_deductions ==
            paye_tax + pension_deduction + nhf_deduction + nhis_deduction + other_deductions
        net_salary == Max(gross_salary - total_deductions, 0)
    IN  [employee_id |-> employee.id,
         base_salary |-> employee.base_salary,
         total_additions |-> total_additions,
         gross_salary |-> gross_salary,
         paye_tax |-> paye_tax,
         pension_deduction |-> pension_deduction,
         nhf_deduction |-> nhf_deduction,
         nhis_deduction |-> nhis_deduction,
         other_deductions |-> other_deductions,
         total_deductions |-> total_deductions,
         net_salary |-> net_salary]

calculate(employee, adjs, tax_config) ==
    LET total_additions == SumAmounts({a \in adjs : a.adjustment_type \in AdditionTypes})
        other_deductions == SumAmounts({a \in adjs : a.adjustment_type \in DeductionTypes})
        gross_salary == employee.base_salary + total_additions
        paye_tax == (gross_salary * tax_config.paye_rate) \div (hundred * RateUnit)
        pension_deduction == (gross_salary * tax_config.pension_rate) \div (hundred * RateUnit)
        nhf_deduction == (gross_salary * tax_config.nhf_rate) \div (hundred * RateUnit)
        nhis_deduction == (gross_salary * tax_config.nhis_rate) \div (hundred * RateUnit)
        total_deductions ==
            paye_tax + pension_deduction + nhf_deduction + nhis_deduction + other_deductions
        net_salary == Max(gross_salary - total_deductions, 0)
    IN  [employee_id |-> employee.id,
         base_salary |-> employee.base_salary,
         total_additions |-> total_additions,
         gross_salary |-> gross_salary,
         paye_tax |-> paye_tax,
         pension_deduction |-> pension_deduction,
         nhf_deduction |-> nhf_deduction,
         nhis_deduction |-> nhis_deduction,
         other_deductions |-> other_deductions,
         total_deductions |-> total_deductions,
         net_salary |-> net_salary]

NoSlipData == calculate([id |-> None, base_salary |-> 0], {}, ZeroRates)

-----------------------------------------------------------------------------
(* Store contents at start-up *)

\* o1 has two active employees, o2 one, and o3 only a deactivated one.
InitialEmployees ==
    [e \in EmployeeIds |->
        CASE e = "e1" -> [organization_id |-> "o1", base_salary |-> 300, is_active |-> TRUE]
          [] e = "e2" -> [organization_id |-> "o1", base_salary |-> 200, is_active |-> TRUE]
          [] e = "e3" -> [organization_id |-> "o2", base_salary |-> 100, is_active |-> TRUE]
          [] e = "e4" -> [organization_id |-> "o3", base_salary |-> 100, is_active |-> FALSE]]

InitialAdjustments ==
    {[id |-> 1, employee_id |-> "e1", adjustment_type |-> "bonus",
      amount |-> 100, pay_period |-> "2024-01"],
     [id |-> 2, employee_id |-> "e2", adjustment_type |-> "late_day_deduction",
      amount |-> 300, pay_period |-> "2024-02"],
     [id |-> 3, employee_id |-> "e3", adjustment_type |-> "commission",
      amount |-> 100, pay_period |-> "2024-02"]}

InitialTaxConfigs ==
    {[organization_id |-> "o1",
      paye_rate |-> 10 * RateUnit, pension_rate |-> 5 * RateUnit,
      nhf_rate |-> 3 * RateUnit, nhis_rate |-> 2 * RateUnit]}

Init ==
    /\ wallet = InitialBalances
    /\ employees = InitialEmployees
    /\ tax_configs = InitialTaxConfigs
    /\ adjustments = InitialAdjustments
    /\ runs = << >>
    /\ slips = EmptyBag
    /\ checked = EmptyBag
    /\ orch = << >>
    /\ transfers = EmptyBag
    /\ debits = EmptyBag
    /\ emails = EmptyBag
    /\ responses = {}

-----------------------------------------------------------------------------
(* run_payroll: the trigger request *)

RunIds == 1..Len(runs)

TaskIds == 1..MaxRuns

\* existing with the filter status = 'completed': a run in progress is not seen.
existingCompletedOnly(o, p) ==
    \E r \in RunIds :
        /\ runs[r].organization_id = o
        /\ runs[r].pay_period = p
        /\ runs[r].status = "completed"

\* existing without the status filter: a failed run is seen too.
existingAnyStatus(o, p) ==
    \E r \in RunIds :
        /\ runs[r].organization_id = o
        /\ runs[r].pay_period = p

\* existing without the organization_id filter: a run of any organization is seen.
existingAnyOrganization(o, p) ==
    \E r \in RunIds :
        /\ runs[r].pay_period = p
        /\ runs[r].status # "failed"

\* SELECT id FROM payroll_runs WHERE organization_id = $1 AND pay_period = $2
\*   AND status::text != 'failed'
existing(o, p) ==
    \E r \in RunIds :
        /\ runs[r].organization_id = o
        /\ runs[r].pay_period = p
        /\ runs[r].status # "failed"

\* NewRun with the row already in progress.
NewRunProcessing(o, p) ==
    [organization_id |-> o, pay_period |-> p, status |-> "processing",
     total_gross |-> 0, total_deductions |-> 0, total_net |-> 0, employee_count |-> 0]

\* INSERT INTO payroll_runs (..) VALUES ($1, $2, $3, 'pending', 0, 0, 0, 0, NOW())
NewRun(o, p) ==
    [organization_id |-> o, pay_period |-> p, status |-> "pending",
     total_gross |-> 0, total_deductions |-> 0, total_net |-> 0, employee_count |-> 0]

\* The locals of a freshly spawned process_payroll_background task.
NewTask(o, p) ==
    [pc |-> "start", organization_id |-> o, pay_period |-> p,
     employees |-> << >>, loaded |-> None, i |-> 0, tax_config |-> ZeroRates,
     slip_data |-> NoSlipData, monnify_ref |-> NoRef, payment_status |-> None,
     total_gross |-> 0, total_deductions |-> 0, total_net |-> 0, success_count |-> 0,
     balance_at_start |-> 0]

\* The SELECT of run_payroll finds a run that is not failed: the request ends
\* with PayrollAlreadyProcessed.
run_payroll_conflict(o, p) ==
    /\ existing(o, p)
    /\ UNCHANGED vars

\* The SELECT of run_payroll finds no such run: the request goes on to its INSERT.
run_payroll_select(o, p) ==
    /\ Len(runs) + BagCardinality(checked) < MaxRuns
    /\ ~existing(o, p)
    /\ checked' = checked (+) SetToBag({<<o, p>>})
    /\ UNCHANGED <<wallet, employees, tax_configs, adjustments, runs, slips,
                   orch, transfers, debits, emails, responses>>

\* INSERT INTO payroll_runs ... 'pending', 0, 0, 0, 0; tokio::spawn; 202 Accepted.
\* A failing INSERT ends the request with a database error and no run.
run_payroll_insert(o, p) ==
    /\ BagIn(<<o, p>>, checked)
    /\ checked' = checked (-) SetToBag({<<o, p>>})
    /\ \/ /\ runs' = Append(runs, NewRun(o, p))
          /\ orch' = Append(orch, NewTask(o, p))
       \/ UNCHANGED <<runs, orch>>
    /\ UNCHANGED <<wallet, employees, tax_configs, adjustments, slips,
                   transfers, debits, emails>>

-----------------------------------------------------------------------------
(* process_payroll_background: one step per await *)

SetStatus(r, st) == [runs EXCEPT ![r].status = st]

SetLocals(r, l) == [orch EXCEPT ![r] = l]

\* Continue without the step to the next employee.
ContinueSameEmployee(l) ==
    LET cleared == [l EXCEPT !.slip_data = NoSlipData, !.monnify_ref = NoRef,
                             !.payment_status = None]
    IN  IF l.i < Len(l.employees)
        THEN [cleared EXCEPT !.pc = "calculate"]
        ELSE [cleared EXCEPT !.pc = "finalize"]

\* End of one iteration of `for employee in &employees`.
Continue(l) ==
    LET cleared == [l EXCEPT !.slip_data = NoSlipData, !.monnify_ref = NoRef,
                             !.payment_status = None]
    IN  IF l.i < Len(l.employees)
        THEN [cleared EXCEPT !.i = l.i + 1, !.pc = "calculate"]
        ELSE [cleared EXCEPT !.pc = "finalize"]

\* Orch_SetProcessing without the UPDATE: the task starts on a pending run.
Orch_StartsWhilePending(r) ==
    /\ r \in RunIds
    /\ orch[r].pc = "start"
    /\ orch' = SetLocals(r, [orch[r] EXCEPT
                   !.pc = "fetch_employees",
                   !.balance_at_start = wallet[orch[r].organization_id]])
    /\ UNCHANGED <<wallet, employees, tax_configs, adjustments, runs, slips,
                   checked, transfers, debits, emails, responses>>

\* UPDATE payroll_runs SET status = 'processing' WHERE id = $1
Orch_SetProcessing(r) ==
    /\ r \in RunIds
    /\ orch[r].pc = "start"
    /\ runs' = SetStatus(r, "processing")
    /\ orch' = SetLocals(r, [orch[r] EXCEPT
                   !.pc = "fetch_employees",
                   !.balance_at_start = wallet[orch[r].organization_id]])
    /\ UNCHANGED <<wallet, employees, tax_configs, adjustments, slips,
                   checked, transfers, debits, emails, responses>>

\* The employees query without its is_active filter.
IsActiveOfAnyStatus(o, e) == employees[e].organization_id = o

\* SELECT * FROM employees WHERE organization_id = $1 AND is_active = true
\* (the statement has no ORDER BY; the rows come in insertion order)
IsActiveOf(o, e) == employees[e].organization_id = o /\ employees[e].is_active

ActiveEmployees(o) ==
    LET Test(e) == IsActiveOf(o, e)
    IN  SelectSeq(EmployeeOrder, Test)

EmployeeRow(e) == [id |-> e, base_salary |-> employees[e].base_salary]

\* FetchResult without the is_empty test: an empty set goes on to completion.
FetchResultKeepsEmpty(l, ok, rows) ==
    IF ~ok THEN [l EXCEPT !.pc = "mark_failed", !.loaded = "error"]
    ELSE IF rows = << >> THEN [l EXCEPT !.pc = "finalize", !.loaded = "empty"]
    ELSE [l EXCEPT !.pc = "load_tax_config", !.loaded = "rows",
                   !.employees = [k \in DOMAIN rows |-> EmployeeRow(rows[k])]]

\* match fetch_all(..).await { Ok(e) => e, Err(e) => { mark_failed; return } }
\* if employees.is_empty() { mark_failed; return }
FetchResult(l, ok, rows) ==
    IF ~ok THEN [l EXCEPT !.pc = "mark_failed", !.loaded = "error"]
    ELSE IF rows = << >> THEN [l EXCEPT !.pc = "mark_failed", !.loaded = "empty"]
    ELSE [l EXCEPT !.pc = "load_tax_config", !.loaded = "rows",
                   !.employees = [k \in DOMAIN rows |-> EmployeeRow(rows[k])]]

Orch_FetchEmployees(r) ==
    /\ r \in RunIds
    /\ orch[r].pc = "fetch_employees"
    /\ \E ok \in BOOLEAN :
          orch' = SetLocals(r, FetchResult(orch[r], ok,
                                           ActiveEmployees(orch[r].organization_id)))
    /\ UNCHANGED <<wallet, employees, tax_configs, adjustments, runs, slips,
                   checked, transfers, debits, emails, responses>>

\* The end of the task.
Returned(l) == [l EXCEPT !.pc = "done"]

\* AfterMarkFailed without the return: the task goes on to the final UPDATE.
AfterMarkFailedFallsThrough(l) == [l EXCEPT !.pc = "finalize"]

\* mark_failed(&db, payroll_run_id).await; return;
AfterMarkFailed(l) == Returned(l)

\* UPDATE payroll_runs SET status = 'failed' WHERE id = $1
mark_failed(r) ==
    /\ r \in RunIds
    /\ orch[r].pc = "mark_failed"
    /\ runs' = SetStatus(r, "failed")
    /\ orch' = SetLocals(r, AfterMarkFailed(orch[r]))
    /\ UNCHANGED <<wallet, employees, tax_configs, adjustments, slips,
                   checked, transfers, debits, emails, responses>>

\* A fallback of 10 percent PAYE for an organization without a tax config.
StoredRatesDefaultPaye(o) ==
    IF \E c \in tax_configs : c.organization_id = o
    THEN LET c == CHOOSE c \in tax_configs : c.organization_id = o
         IN  [paye_rate |-> c.paye_rate, pension_rate |-> c.pension_rate,
              nhf_rate |-> c.nhf_rate, nhis_rate |-> c.nhis_rate]
    ELSE [ZeroRates EXCEPT !.paye_rate = 10 * RateUnit]

\* fetch_optional(..).await.unwrap_or(None).unwrap_or_else(zero rates)
StoredRates(o) ==
    IF \E c \in tax_configs : c.organization_id = o
    THEN LET c == CHOOSE c \in tax_configs : c.organization_id = o
         IN  [paye_rate |-> c.paye_rate, pension_rate |-> c.pension_rate,
              nhf_rate |-> c.nhf_rate, nhis_rate |-> c.nhis_rate]
    ELSE ZeroRates

Orch_LoadTaxConfig(r) ==
    /\ r \in RunIds
    /\ orch[r].pc = "load_tax_config"
    /\ \E rates \in {StoredRates(orch[r].organization_id), ZeroRates} :
          orch' = SetLocals(r, [orch[r] EXCEPT
                      !.pc = "calculate", !.tax_config = rates, !.i = 1])
    /\ UNCHANGED <<wallet, employees, tax_configs, adjustments, runs, slips,
                   checked, transfers, debits, emails, responses>>

\* SELECT ... FROM payroll_adjustments WHERE employee_id = $1 AND pay_period = $2
AdjustmentsOf(e, p) ==
    {a \in adjustments : a.employee_id = e /\ a.pay_period = p}

\* Orch_Calculate with the employee row read again from the store.
Orch_CalculateRereads(r) ==
    /\ r \in RunIds
    /\ orch[r].pc = "calculate"
    /\ LET employee == EmployeeRow(orch[r].employees[orch[r].i].id)
       IN  \E adjs \in {AdjustmentsOf(employee.id, orch[r].pay_period), {}} :
              orch' = SetLocals(r, [orch[r] EXCEPT
                          !.pc = "read_wallet",
                          !.slip_data = calculate(employee, adjs, orch[r].tax_config)])
    /\ UNCHANGED <<wallet, employees, tax_configs, adjustments, runs, slips,
                   checked, transfers, debits, emails, responses>>

\* The adjustments query (empty on error) and PayrollService::calculate.
Orch_Calculate(r) ==
    /\ r \in RunIds
    /\ orch[r].pc = "calculate"
    /\ LET employee == orch[r].employees[orch[r].i]
       IN  \E adjs \in {AdjustmentsOf(employee.id, orch[r].pay_period), {}} :
              orch' = SetLocals(r, [orch[r] EXCEPT
                          !.pc = "read_wallet",
                          !.slip_data = calculate(employee, adjs, orch[r].tax_config)])
    /\ UNCHANGED <<wallet, employees, tax_configs, adjustments, runs, slips,
                   checked, transfers, debits, emails, responses>>

\* Ok(w) if w.wallet_balance < slip_data.net_salary
Insufficient(balance, net_salary) == balance < net_salary

\* WalletMatch with return for continue in the Err arm.
WalletMatchReturnsOnError(l, ok, balance) ==
    IF ~ok THEN Returned(l)
    ELSE IF Insufficient(balance, l.slip_data.net_salary)
         THEN [l EXCEPT !.pc = "save_failed_slip"]
         ELSE [l EXCEPT !.pc = "send_transfer"]

\* WalletMatch with a failed wallet read failing the run.
WalletMatchFailsRun(l, ok, balance) ==
    IF ~ok THEN [l EXCEPT !.pc = "mark_failed"]
    ELSE IF Insufficient(balance, l.slip_data.net_salary)
         THEN [l EXCEPT !.pc = "save_failed_slip"]
         ELSE [l EXCEPT !.pc = "send_transfer"]

\* WalletMatch with the loop moving to the next employee before the transfer
\* of the current one.
WalletMatchMovesOn(l, ok, balance) ==
    IF ~ok THEN Continue(l)
    ELSE IF Insufficient(balance, l.slip_data.net_salary)
         THEN [l EXCEPT !.pc = "save_failed_slip"]
         ELSE [l EXCEPT !.pc = "send_transfer",
                        !.i = IF l.i < Len(l.employees) THEN l.i + 1 ELSE l.i]

\* match wallet {
\*   Ok(w) if w.wallet_balance < slip_data.net_salary => { save_payroll_slip; continue }
\*   Err(e) => continue,
\*   _ => {} }
WalletMatch(l, ok, balance) ==
    IF ~ok THEN Continue(l)
    ELSE IF Insufficient(balance, l.slip_data.net_salary)
         THEN [l EXCEPT !.pc = "save_failed_slip"]
         ELSE [l EXCEPT !.pc = "send_transfer"]

\* SELECT wallet_balance FROM organizations WHERE id = $1, and the match on it.
Orch_ReadWallet(r) ==
    /\ r \in RunIds
    /\ orch[r].pc = "read_wallet"
    /\ \E ok \in BOOLEAN :
          orch' = SetLocals(r, WalletMatch(orch[r], ok, wallet[orch[r].organization_id]))
    /\ UNCHANGED <<wallet, employees, tax_configs, adjustments, runs, slips,
                   checked, transfers, debits, emails, responses>>

\* The row save_payroll_slip inserts.
SlipRow(r, slip, pay_period, organization_id, monnify_reference, payment_status) ==
    [payroll_run_id |-> r,
     employee_id |-> slip.employee_id,
     organization_id |-> organization_id,
     pay_period |-> pay_period,
     base_salary |-> slip.base_salary,
     total_additions |-> slip.total_additions,
     gross_salary |-> slip.gross_salary,
     paye_tax |-> slip.paye_tax,
     pension_deduction |-> slip.pension_deduction,
     nhf_deduction |-> slip.nhf_deduction,
     nhis_deduction |-> slip.nhis_deduction,
     other_deductions |-> slip.other_deductions,
     total_deductions |-> slip.total_deductions,
     net_salary |-> slip.net_salary,
     monnify_reference |-> monnify_reference,
     payment_status |-> payment_status]

\* INSERT INTO payroll_slips ... RETURNING *  (.ok(): None when the insert fails)
save_payroll_slip(r, slip, pay_period, organization_id, reference, status, inserted) ==
    IF inserted
    THEN slips (+) SetToBag({SlipRow(r, slip, pay_period, organization_id,
                                     reference, status)})
    ELSE slips

\* save_payroll_slip(.., None, "failed") of the insufficient-balance arm; continue
Orch_SaveFailedSlip(r) ==
    /\ r \in RunIds
    /\ orch[r].pc = "save_failed_slip"
    /\ \E inserted \in BOOLEAN :
          slips' = save_payroll_slip(r, orch[r].slip_data, orch[r].pay_period,
                                     orch[r].organization_id, NoRef, "failed", inserted)
    /\ orch' = SetLocals(r, Continue(orch[r]))
    /\ UNCHANGED <<wallet, employees, tax_configs, adjustments, runs,
                   checked, transfers, debits, emails, responses>>

\* A reference built from the organization instead of the run.
ReferenceOfOrganization(r, e) == <<"PAY", runs[r].organization_id, e>>

\* format!("PAY-{}-{}", payroll_run_id, employee.id)
Reference(r, e) == <<"PAY", r, e>>

\* The provider-assigned reference of an accepted transfer.
BodyReference(reference) == <<"MNFY", reference>>

\* TransferMatch with the request reference kept in the Err arm.
TransferMatchKeepsReference(l, ok, body_reference) ==
    IF ok
    THEN [l EXCEPT !.pc = "debit",
                   !.monnify_ref = body_reference, !.payment_status = "success"]
    ELSE [l EXCEPT !.pc = "save_slip",
                   !.monnify_ref = body_reference, !.payment_status = "failed"]

\* TransferMatch with the wallet UPDATE hoisted out of the Ok arm.
TransferMatchAlwaysDebits(l, ok, body_reference) ==
    IF ok
    THEN [l EXCEPT !.pc = "debit",
                   !.monnify_ref = body_reference, !.payment_status = "success"]
    ELSE [l EXCEPT !.pc = "debit",
                   !.monnify_ref = NoRef, !.payment_status = "failed"]

\* let (monnify_ref, payment_status) = match transfer_result {
\*   Ok(body) => { UPDATE organizations ..; (Some(body.reference), "success") }
\*   Err(e) => (None, "failed") }
TransferMatch(l, ok, body_reference) ==
    IF ok
    THEN [l EXCEPT !.pc = "debit",
                   !.monnify_ref = body_reference, !.payment_status = "success"]
    ELSE [l EXCEPT !.pc = "save_slip",
                   !.monnify_ref = NoRef, !.payment_status = "failed"]

\* monnify.send_transfer(net_salary, &reference, ..).await
Orch_SendTransfer(r) ==
    /\ r \in RunIds
    /\ orch[r].pc = "send_transfer"
    /\ LET reference == Reference(r, orch[r].slip_data.employee_id)
       IN  \E ok \in BOOLEAN :
              /\ transfers' = transfers (+) SetToBag({[reference |-> reference,
                                  amount |-> orch[r].slip_data.net_salary, ok |-> ok]})
              /\ orch' = SetLocals(r, TransferMatch(orch[r], ok, BodyReference(reference)))
    /\ UNCHANGED <<wallet, employees, tax_configs, adjustments, runs, slips,
                   checked, debits, emails, responses>>

\* The wallet UPDATE with the gross salary in place of the net salary (here
\* one unit more than the transfer).
DebitedMoreThanSent(o, net_salary) == [wallet EXCEPT ![o] = wallet[o] - (net_salary + 1)]

\* The wallet UPDATE with the sign of the amount turned round.
DebitedCredits(o, net_salary) == [wallet EXCEPT ![o] = wallet[o] + net_salary]

\* UPDATE organizations SET wallet_balance = wallet_balance - $1 WHERE id = $2
Debited(o, net_salary) == [wallet EXCEPT ![o] = wallet[o] - net_salary]

\* The wallet UPDATE of the Ok(body) arm.
Orch_DebitWallet(r) ==
    /\ r \in RunIds
    /\ orch[r].pc = "debit"
    /\ wallet' = Debited(orch[r].organization_id, orch[r].slip_data.net_salary)
    /\ debits' = debits (+) SetToBag({[payroll_run_id |-> r,
                                       employee_id |-> orch[r].slip_data.employee_id,
                                       amount |-> orch[r].slip_data.net_salary]})
    /\ orch' = SetLocals(r, [orch[r] EXCEPT !.pc = "save_slip"])
    /\ UNCHANGED <<employees, tax_configs, adjustments, runs, slips,
                   checked, transfers, emails, responses>>

\* total_gross += ..; total_deductions += ..; total_net += ..; success_count += 1
Accumulate(l) ==
    [l EXCEPT !.total_gross = l.total_gross + l.slip_data.gross_salary,
              !.total_deductions = l.total_deductions + l.slip_data.total_deductions,
              !.total_net = l.total_net + l.slip_data.net_salary,
              !.success_count = l.success_count + 1]

\* AfterSlip with the totals taken out of the success test.
AfterSlipCountsFailed(l, inserted) ==
    IF l.payment_status = "success" /\ inserted
    THEN [Accumulate(l) EXCEPT !.pc = "send_email"]
    ELSE Continue(Accumulate(l))

\* AfterSlip with a failed payment failing the run.
AfterSlipFailsRun(l, inserted) ==
    IF l.payment_status = "success"
    THEN IF inserted
         THEN [Accumulate(l) EXCEPT !.pc = "send_email"]
         ELSE Continue(Accumulate(l))
    ELSE [l EXCEPT !.pc = "mark_failed"]

\* AfterSlip with the notification taken out of the success test.
AfterSlipEmailsFailed(l, inserted) ==
    IF l.payment_status = "success"
    THEN IF inserted
         THEN [Accumulate(l) EXCEPT !.pc = "send_email"]
         ELSE Continue(Accumulate(l))
    ELSE IF inserted THEN [l EXCEPT !.pc = "send_email"] ELSE Continue(l)

\* if payment_status == "success" { totals; if let Some(ref s) = slip { email } }
AfterSlip(l, inserted) ==
    IF l.payment_status = "success"
    THEN IF inserted
         THEN [Accumulate(l) EXCEPT !.pc = "send_email"]
         ELSE Continue(Accumulate(l))
    ELSE Continue(l)

\* save_payroll_slip(.., monnify_ref.clone(), &payment_status).await
Orch_SaveSlip(r) ==
    /\ r \in RunIds
    /\ orch[r].pc = "save_slip"
    /\ \E inserted \in BOOLEAN :
          /\ slips' = save_payroll_slip(r, orch[r].slip_data, orch[r].pay_period,
                                        orch[r].organization_id, orch[r].monnify_ref,
                                        orch[r].payment_status, inserted)
          /\ orch' = SetLocals(r, AfterSlip(orch[r], inserted))
    /\ UNCHANGED <<wallet, employees, tax_configs, adjustments, runs,
                   checked, transfers, debits, emails, responses>>

\* AfterEmail with the task ending on a failed send.
AfterEmailReturnsOnError(l, ok) == IF ok THEN Continue(l) ELSE Returned(l)

\* if let Err(e) = result { warn!(..) }, and the end of the loop body
AfterEmail(l, ok) == Continue(l)

\* email_svc.send_payslip_email(..).await: the relay takes the message or the
\* send fails
Orch_SendEmail(r) ==
    /\ r \in RunIds
    /\ orch[r].pc = "send_email"
    /\ emails' = emails (+) SetToBag({[payroll_run_id |-> r,
                                       employee_id |-> orch[r].slip_data.employee_id]})
    /\ \E ok \in BOOLEAN : orch' = SetLocals(r, AfterEmail(orch[r], ok))
    /\ UNCHANGED <<wallet, employees, tax_configs, adjustments, runs, slips,
                   checked, transfers, debits, responses>>

\* Completed without the status: the totals are written to a run in progress.
CompletedKeepsStatus(r, l) ==
    [runs EXCEPT ![r] = [runs[r] EXCEPT
        !.total_gross = l.total_gross,
        !.total_deductions = l.total_deductions,
        !.total_net = l.total_net,
        !.employee_count = l.success_count]]

\* UPDATE payroll_runs SET status = 'completed', total_gross = $1, ... WHERE id = $5
Completed(r, l) ==
    [runs EXCEPT ![r] = [runs[r] EXCEPT
        !.status = "completed",
        !.total_gross = l.total_gross,
        !.total_deductions = l.total_deductions,
        !.total_net = l.total_net,
        !.employee_count = l.success_count]]

\* Orch_Finalize with a task that is taken up again after the process ended.
Orch_FinalizeResumes(r) ==
    /\ r \in RunIds
    /\ orch[r].pc \in {"finalize", "killed"}
    /\ runs' = Completed(r, orch[r])
    /\ orch' = SetLocals(r, Returned(orch[r]))
    /\ UNCHANGED <<wallet, employees, tax_configs, adjustments, slips,
                   checked, transfers, debits, emails, responses>>

Orch_Finalize(r) ==
    /\ r \in RunIds
    /\ orch[r].pc = "finalize"
    /\ runs' = Completed(r, orch[r])
    /\ orch' = SetLocals(r, Returned(orch[r]))
    /\ UNCHANGED <<wallet, employees, tax_configs, adjustments, slips,
                   checked, transfers, debits, emails, responses>>

process_payroll_background(r) ==
    \/ Orch_SetProcessing(r)
    \/ Orch_FetchEmployees(r)
    \/ mark_failed(r)
    \/ Orch_LoadTaxConfig(r)
    \/ Orch_Calculate(r)
    \/ Orch_ReadWallet(r)
    \/ Orch_SaveFailedSlip(r)
    \/ Orch_SendTransfer(r)
    \/ Orch_DebitWallet(r)
    \/ Orch_SaveSlip(r)
    \/ Orch_SendEmail(r)
    \/ Orch_Finalize(r)

\* No run: the run_id and run of a response that carries an error.
NoRun ==
    [organization_id |-> None, pay_period |-> None, status |-> None,
     total_gross |-> 0, total_deductions |-> 0, total_net |-> 0, employee_count |-> 0]

\* Ok((StatusCode::ACCEPTED, Json(run))): run is the row the INSERT returned.
Accepted(o, p, id, row) ==
    [code |-> "ACCEPTED", organization_id |-> o, pay_period |-> p,
     run_id |-> id, run |-> row]

\* Err(AppError::PayrollAlreadyProcessed) => StatusCode::UNPROCESSABLE_ENTITY
PayrollAlreadyProcessed(o, p) ==
    [code |-> "UNPROCESSABLE_ENTITY", organization_id |-> o, pay_period |-> p,
     run_id |-> 0, run |-> NoRun]

\* The ? of a failing statement: AppError::Database => INTERNAL_SERVER_ERROR
Database(o, p) ==
    [code |-> "INTERNAL_SERVER_ERROR", organization_id |-> o, pay_period |-> p,
     run_id |-> 0, run |-> NoRun]

\* What the request that took the INSERT step returns.
InsertResponse(o, p) ==
    IF Len(runs') > Len(runs)
    THEN Accepted(o, p, Len(runs'), runs'[Len(runs')])
    ELSE Database(o, p)

\* The handler with the response it returns.  A failing SELECT changes nothing
\* in the store and answers with the database error.
run_payroll(o, p) ==
    \/ /\ UNCHANGED vars
       /\ responses' = responses \cup {Database(o, p)}
    \/ /\ run_payroll_conflict(o, p)
       /\ responses' = responses \cup {PayrollAlreadyProcessed(o, p)}
    \/ run_payroll_select(o, p)
    \/ /\ run_payroll_insert(o, p)
       /\ responses' = responses \cup {InsertResponse(o, p)}

Next ==
    \/ \E o \in Orgs, p \in Periods :
          \/ run_payroll_conflict(o, p) /\ UNCHANGED responses
          \/ run_payroll_select(o, p)
          \/ run_payroll_insert(o, p) /\ UNCHANGED responses
    \/ \E r \in TaskIds : process_payroll_background(r)

Spec == Init /\ [][Next]_vars

\* The background tasks are tokio tasks: a task that can take its next step
\* (its store statement, gateway call or relay call returns) eventually takes it.
\* Progress of one run is followed: the first trigger is the only one admitted.
FirstTrigger == runs = << >> /\ checked = EmptyBag

NextLive ==
    \/ \E o \in Orgs, p \in Periods :
          \/ run_payroll_conflict(o, p) /\ UNCHANGED responses
          \/ FirstTrigger /\ run_payroll_select(o, p)
          \/ run_payroll_insert(o, p) /\ UNCHANGED responses
    \/ \E r \in TaskIds : process_payroll_background(r)

FairSpec ==
    /\ Init
    /\ [][NextLive]_vars
    /\ \A r \in TaskIds : WF_vars(process_payroll_background(r))

\* The organization whose triggers TriggerSpec follows (one active employee).
TriggerOrgs == {"o2"}

NextTrigger ==
    \/ \E o \in TriggerOrgs, p \in Periods : run_payroll(o, p)
    \/ \E r \in TaskIds : process_payroll_background(r)

\* The handler as its callers see it: every response is recorded.
TriggerSpec == Init /\ [][NextTrigger]_<<vars, responses>>

\* The store as the employee, adjustment and tax-config handlers can have left
\* it before a run: create_employee takes any base salary, add_adjustment any
\* amount above zero, set_tax_config any rate from 0 to 100.
CalcSalaries == {-100, 0, 100, 300}

CalcAdjustments ==
    {[id |-> 1, employee_id |-> "e1", adjustment_type |-> "bonus",
      amount |-> 100, pay_period |-> "2024-01"],
     [id |-> 2, employee_id |-> "e1", adjustment_type |-> "unpaid_leave_deduction",
      amount |-> 500, pay_period |-> "2024-01"],
     [id |-> 3, employee_id |-> "e1", adjustment_type |-> "commission",
      amount |-> 200, pay_period |-> "2024-02"],
     [id |-> 4, employee_id |-> "e2", adjustment_type |-> "overtime",
      amount |-> 100, pay_period |-> "2024-01"]}

CalcTaxConfigs ==
    {{},
     InitialTaxConfigs,
     {[organization_id |-> "o1",
       paye_rate |-> 100 * RateUnit, pension_rate |-> 100 * RateUnit,
       nhf_rate |-> 0, nhis_rate |-> 50 * RateUnit]}}

InitCalc ==
    /\ wallet = InitialBalances
    /\ \E b \in CalcSalaries :
          employees = [InitialEmployees EXCEPT !["e1"].base_salary = b]
    /\ tax_configs \in CalcTaxConfigs
    /\ adjustments \in SUBSET CalcAdjustments
    /\ runs = << >>
    /\ slips = EmptyBag
    /\ checked = EmptyBag
    /\ orch = << >>
    /\ transfers = EmptyBag
    /\ debits = EmptyBag
    /\ emails = EmptyBag
    /\ responses = {}

\* One run over each of these stores.
CalcSpec == InitCalc /\ [][NextLive]_vars

\* A store holding the worked example: e1 earns 300,000, a bonus of 50,000 and
\* a late-day deduction may be recorded for 2024-01, the rates are 7.5, 8, 2.5
\* and 1.75 percent or not configured, the wallet holds 1,000,000 or 100,000.
ScenarioRates ==
    [paye_rate |-> 750, pension_rate |-> 800, nhf_rate |-> 250, nhis_rate |-> 175]

ScenarioEmployees ==
    [InitialEmployees EXCEPT !["e1"].base_salary = 300000,
                             !["e2"].base_salary = 200000]

ScenarioAdjustments ==
    {[id |-> 1, employee_id |-> "e1", adjustment_type |-> "bonus",
      amount |-> 50000, pay_period |-> "2024-01"],
     [id |-> 2, employee_id |-> "e1", adjustment_type |-> "late_day_deduction",
      amount |-> 20000, pay_period |-> "2024-01"]}

ScenarioTaxConfigs ==
    {{},
     {[organization_id |-> "o1",
       paye_rate |-> ScenarioRates.paye_rate, pension_rate |-> ScenarioRates.pension_rate,
       nhf_rate |-> ScenarioRates.nhf_rate, nhis_rate |-> ScenarioRates.nhis_rate]}}

ScenarioBalances == {1000000, 100000}

InitScenario ==
    /\ \E b \in ScenarioBalances : wallet = [InitialBalances EXCEPT !["o1"] = b]
    /\ employees = ScenarioEmployees
    /\ tax_configs \in ScenarioTaxConfigs
    /\ adjustments \in SUBSET ScenarioAdjustments
    /\ runs = << >>
    /\ slips = EmptyBag
    /\ checked = EmptyBag
    /\ orch = << >>
    /\ transfers = EmptyBag
    /\ debits = EmptyBag
    /\ emails = EmptyBag
    /\ responses = {}

\* One run over each of these stores.
ScenarioSpec == InitScenario /\ [][NextLive]_vars

\* UPDATE employees SET is_active = false WHERE id = $1 AND organization_id = $2
\* by the organization o for the employee e; a statement that matches no row
\* or fails ends the request with an error and changes nothing.
deactivate_employee(o, e) ==
    /\ employees[e].organization_id = o
    /\ employees' = [employees EXCEPT ![e].is_active = FALSE]
    /\ UNCHANGED <<wallet, tax_configs, adjustments, runs, slips, checked, orch,
                   transfers, debits, emails, responses>>

\* The organization whose runs and employees DeactivateSpec follows (two
\* active employees), one run after the other.
DeactivateOrgs == {"o1"}

NextTriggerAfterLast ==
    /\ checked = EmptyBag
    /\ \A r \in RunIds : orch[r].pc = "done"

NextDeactivate ==
    \/ \E o \in DeactivateOrgs, p \in Periods :
          \/ run_payroll_conflict(o, p) /\ UNCHANGED responses
          \/ NextTriggerAfterLast /\ run_payroll_select(o, p)
          \/ run_payroll_insert(o, p) /\ UNCHANGED responses
    \/ \E o \in DeactivateOrgs, e \in EmployeeIds : deactivate_employee(o, e)
    \/ \E r \in TaskIds : process_payroll_background(r)

\* Runs of one organization with employees deactivated at any moment.
DeactivateSpec == Init /\ [][NextDeactivate]_vars

\* One payroll_adjustments row of each value of the adjustment_type enum for
\* e1 in 2024-01, with amounts that tell the rows apart in a sum.
PartitionAdjustments ==
    {[id |-> 1, employee_id |-> "e1", adjustment_type |-> "overtime",
      amount |-> 1, pay_period |-> "2024-01"],
     [id |-> 2, employee_id |-> "e1", adjustment_type |-> "bonus",
      amount |-> 2, pay_period |-> "2024-01"],
     [id |-> 3, employee_id |-> "e1", adjustment_type |-> "commission",
      amount |-> 4, pay_period |-> "2024-01"],
     [id |-> 4, employee_id |-> "e1", adjustment_type |-> "late_day_deduction",
      amount |-> 8, pay_period |-> "2024-01"],
     [id |-> 5, employee_id |-> "e1", adjustment_type |-> "unpaid_leave_deduction",
      amount |-> 16, pay_period |-> "2024-01"],
     [id |-> 6, employee_id |-> "e1", adjustment_type |-> "other_deduction",
      amount |-> 32, pay_period |-> "2024-01"],
     [id |-> 7, employee_id |-> "e1", adjustment_type |-> "other_addition",
      amount |-> 64, pay_period |-> "2024-01"]}

PartitionBalance == 500

InitPartition ==
    /\ wallet = [InitialBalances EXCEPT !["o1"] = PartitionBalance]
    /\ employees = InitialEmployees
    /\ tax_configs = {}
    /\ adjustments \in SUBSET PartitionAdjustments
    /\ runs = << >>
    /\ slips = EmptyBag
    /\ checked = EmptyBag
    /\ orch = << >>
    /\ transfers = EmptyBag
    /\ debits = EmptyBag
    /\ emails = EmptyBag
    /\ responses = {}

\* One run over every set of rows of the seven adjustment types.
PartitionSpec == InitPartition /\ [][NextLive]_vars

\* An id no employees row has yet.
NoEmployee == [organization_id |-> None, base_salary |-> 0, is_active |-> FALSE]

\* The response of an employee handler to a request with base salary b:
\* the status of the Ok value or the AppError variant.
EmployeeResponse(handler, code, b) ==
    [handler |-> handler, code |-> code, negative |-> b < 0]

\* create_employee by the organization o with base salary b; e is the id
\* Uuid::new_v4() gives the row.  The email SELECT can fail or find a row of
\* the organization with the same email (Conflict), the INSERT can fail; the
\* handler compares body.base_salary with nothing.
create_employee(o, e, b) ==
    /\ employees[e].organization_id = None
    /\ \/ /\ employees' = [employees EXCEPT ![e] =
                  [organization_id |-> o, base_salary |-> b, is_active |-> TRUE]]
          /\ responses' = responses \cup {EmployeeResponse("create_employee", "CREATED", b)}
       \/ /\ \E e2 \in EmployeeIds : employees[e2].organization_id = o
          /\ employees' = employees
          /\ responses' = responses \cup {EmployeeResponse("create_employee", "Conflict", b)}
       \/ /\ employees' = employees
          /\ responses' = responses \cup {EmployeeResponse("create_employee", "Database", b)}
    /\ UNCHANGED <<wallet, tax_configs, adjustments, runs, slips, checked, orch,
                   transfers, debits, emails>>

\* set_base_salary by the organization o for the employee e with base salary b:
\* if body.base_salary < 0 { Validation }; UPDATE employees SET base_salary = $1
\* WHERE id = $2 AND organization_id = $3 RETURNING * (no row: NotFound).
set_base_salary(o, e, b) ==
    /\ IF b < 0
       THEN /\ employees' = employees
            /\ responses' = responses \cup {EmployeeResponse("set_base_salary", "Validation", b)}
       ELSE \/ /\ employees' = employees
               /\ responses' = responses
                     \cup {EmployeeResponse("set_base_salary", "Database", b)}
            \/ IF employees[e].organization_id = o
               THEN /\ employees' = [employees EXCEPT ![e].base_salary = b]
                    /\ responses' = responses
                          \cup {EmployeeResponse("set_base_salary", "OK", b)}
               ELSE /\ employees' = employees
                    /\ responses' = responses
                          \cup {EmployeeResponse("set_base_salary", "NotFound", b)}
    /\ UNCHANGED <<wallet, tax_configs, adjustments, runs, slips, checked, orch,
                   transfers, debits, emails>>

\* The organization whose employee requests EmployeeSpec follows and the base
\* salaries its requests carry.
EmployeeOrgs == {"o1"}

RequestSalaries == {-100, 0, 200}

InitEmployee ==
    /\ wallet = InitialBalances
    /\ employees = [InitialEmployees EXCEPT !["e2"] = NoEmployee]
    /\ tax_configs = InitialTaxConfigs
    /\ adjustments = {a \in InitialAdjustments : a.employee_id # "e2"}
    /\ runs = << >>
    /\ slips = EmptyBag
    /\ checked = EmptyBag
    /\ orch = << >>
    /\ transfers = EmptyBag
    /\ debits = EmptyBag
    /\ emails = EmptyBag
    /\ responses = {}

NextEmployee ==
    \E o \in EmployeeOrgs, e \in EmployeeIds, b \in RequestSalaries :
        \/ create_employee(o, e, b)
        \/ set_base_salary(o, e, b)

\* Any sequence of create_employee and set_base_salary requests.
EmployeeSpec == InitEmployee /\ [][NextEmployee]_<<vars, responses>>

\* The rate test of set_tax_config on the PAYE rate alone.
RatesAcceptedPayeOnly(rates) ==
    ~(rates.paye_rate < 0 \/ rates.paye_rate > 100 * RateUnit)

\* for rate in &rates { if *rate < dec!(0) || *rate > dec!(100) { Validation } }
RatesAccepted(rates) ==
    \A f \in {"paye_rate", "pension_rate", "nhf_rate", "nhis_rate"} :
        ~(rates[f] < 0 \/ rates[f] > 100 * RateUnit)

\* INSERT INTO tax_configs .. ON CONFLICT (organization_id) DO UPDATE SET ..
Upserted(o, rates) ==
    {c \in tax_configs : c.organization_id # o}
        \cup {[organization_id |-> o,
                paye_rate |-> rates.paye_rate, pension_rate |-> rates.pension_rate,
                nhf_rate |-> rates.nhf_rate, nhis_rate |-> rates.nhis_rate]}

\* The response of set_tax_config to the organization o.
TaxConfigResponse(o, code) ==
    [handler |-> "set_tax_config", organization_id |-> o, code |-> code]

\* set_tax_config by the organization o with the four rates of the body: the
\* validation loop, then the upsert, which can fail.
set_tax_config(o, rates) ==
    /\ IF ~RatesAccepted(rates)
       THEN /\ tax_configs' = tax_configs
            /\ responses' = responses \cup {TaxConfigResponse(o, "Validation")}
       ELSE \/ /\ tax_configs' = Upserted(o, rates)
               /\ responses' = responses \cup {TaxConfigResponse(o, "OK")}
            \/ /\ tax_configs' = tax_configs
               /\ responses' = responses \cup {TaxConfigResponse(o, "Database")}
    /\ UNCHANGED <<wallet, employees, adjustments, runs, slips, checked, orch,
                   transfers, debits, emails>>

\* The organizations that send set_tax_config requests and the bodies they
\* send: rates at both ends of the range, inside it, and one rate outside it
\* in each of the four positions.
TaxConfigOrgs == {"o1", "o2"}

RequestRates ==
    {ZeroRates,
     [paye_rate |-> 750, pension_rate |-> 800, nhf_rate |-> 250, nhis_rate |-> 175],
     [paye_rate |-> 100 * RateUnit, pension_rate |-> 0,
      nhf_rate |-> 100 * RateUnit, nhis_rate |-> 100 * RateUnit],
     [ZeroRates EXCEPT !.paye_rate = -1],
     [ZeroRates EXCEPT !.pension_rate = 100 * RateUnit + 1],
     [ZeroRates EXCEPT !.nhf_rate = -500],
     [ZeroRates EXCEPT !.nhis_rate = 200 * RateUnit]}

NextTaxConfig ==
    \E o \in TaxConfigOrgs, rates \in RequestRates : set_tax_config(o, rates)

\* Any sequence of set_tax_config requests on the initial store.
TaxConfigSpec == Init /\ [][NextTaxConfig]_<<vars, responses>>

\* What the organization o1 changes while its run is in progress: e2 is
\* deactivated, e1 is re-priced, the tax config is replaced.
SnapshotOrgs == {"o1"}

SnapshotSalary == 500

SnapshotRates == [ZeroRates EXCEPT !.paye_rate = 20 * RateUnit]

NextSnapshot ==
    \/ \E o \in SnapshotOrgs, p \in Periods :
          \/ run_payroll_conflict(o, p) /\ UNCHANGED responses
          \/ FirstTrigger /\ run_payroll_select(o, p)
          \/ run_payroll_insert(o, p) /\ UNCHANGED responses
    \/ \E o \in SnapshotOrgs : deactivate_employee(o, "e2")
    \/ \E o \in SnapshotOrgs : set_base_salary(o, "e1", SnapshotSalary)
    \/ \E o \in SnapshotOrgs : set_tax_config(o, SnapshotRates)
    \/ \E r \in TaskIds : process_payroll_background(r)

\* One run of o1 with the employee and tax-config handlers called meanwhile.
SnapshotSpec == Init /\ [][NextSnapshot]_<<vars, responses>>

\* The organizations whose administrators trigger payroll side by side, for
\* the same pay period.
IsolationOrgs == {"o1", "o2"}

IsolationPeriods == {"2024-01"}

NextIsolation ==
    \/ \E o \in IsolationOrgs, p \in IsolationPeriods : run_payroll(o, p)
    \/ \E r \in TaskIds : process_payroll_background(r)

\* The store after o1 has deactivated e2: each of the two organizations has one
\* active employee.
InitIsolation ==
    /\ wallet = InitialBalances
    /\ employees = [InitialEmployees EXCEPT !["e2"].is_active = FALSE]
    /\ tax_configs = InitialTaxConfigs
    /\ adjustments = InitialAdjustments
    /\ runs = << >>
    /\ slips = EmptyBag
    /\ checked = EmptyBag
    /\ orch = << >>
    /\ transfers = EmptyBag
    /\ debits = EmptyBag
    /\ emails = EmptyBag
    /\ responses = {}

\* Two organizations run payroll for one period, every response recorded.
IsolationSpec == InitIsolation /\ [][NextIsolation]_<<vars, responses>>

\* The response of an organization handler to the organization o.
OrganizationResponse(handler, o, code, amount) ==
    [handler |-> handler, organization_id |-> o, code |-> code, amount |-> amount]

\* register_organization for the organization o (its email): the email SELECT
\* can fail or find the row (Conflict); the INSERT stores wallet_balance 0 or
\* fails; generate_token can fail after the row is stored.
register_organization(o) ==
    /\ \/ /\ wallet' = wallet
          /\ responses' = responses
                \cup {OrganizationResponse("register_organization", o, "Database", 0)}
       \/ /\ o \in DOMAIN wallet
          /\ wallet' = wallet
          /\ responses' = responses
                \cup {OrganizationResponse("register_organization", o, "Conflict", 0)}
       \/ /\ o \notin DOMAIN wallet
          /\ wallet' = (o :> 0) @@ wallet
          /\ \E code \in {"CREATED", "Internal"} :
                responses' = responses
                    \cup {OrganizationResponse("register_organization", o, code, 0)}
    /\ UNCHANGED <<employees, tax_configs, adjustments, runs, slips, checked, orch,
                   transfers, debits, emails>>

\* fund_wallet by the organization o for amount: initiate_wallet_funding asks
\* the gateway for a checkout link and the handler returns it or the gateway's
\* error.  The handler has no statement on the store.
fund_wallet(o, amount) ==
    /\ o \in DOMAIN wallet
    /\ \E code \in {"OK", "MonnifyError"} :
          responses' = responses \cup {OrganizationResponse("fund_wallet", o, code, amount)}
    /\ UNCHANGED vars

\* The organizations registered before the first step, the organizations that
\* send register requests, and the funding requests.
RegisteredAtStart == {"o1", "o2"}

RegisterOrgs == {"o1", "o3"}

FundOrgs == {"o1"}

FundAmounts == {50}

\* The store with o1 and o2 registered and funded, and o3 not yet registered.
InitWallet ==
    /\ wallet = [o \in RegisteredAtStart |-> InitialBalances[o]]
    /\ employees = [InitialEmployees EXCEPT !["e4"] = NoEmployee]
    /\ tax_configs = InitialTaxConfigs
    /\ adjustments = {a \in InitialAdjustments : a.employee_id # "e4"}
    /\ runs = << >>
    /\ slips = EmptyBag
    /\ checked = EmptyBag
    /\ orch = << >>
    /\ transfers = EmptyBag
    /\ debits = EmptyBag
    /\ emails = EmptyBag
    /\ responses = {}

NextWallet ==
    \/ \E o \in Orgs, p \in Periods :
          \/ o \in DOMAIN wallet /\ run_payroll_conflict(o, p) /\ UNCHANGED responses
          \/ o \in DOMAIN wallet /\ FirstTrigger /\ run_payroll_select(o, p)
          \/ run_payroll_insert(o, p) /\ UNCHANGED responses
    \/ \E o \in RegisterOrgs : register_organization(o)
    \/ \E o \in FundOrgs, amount \in FundAmounts : fund_wallet(o, amount)
    \/ \E r \in TaskIds : process_payroll_background(r)

\* One run of a registered organization with registrations and funding
\* requests made meanwhile.
WalletSpec == InitWallet /\ [][NextWallet]_<<vars, responses>>

\* The server process ends (a crash, a kill, a redeploy) while tasks or
\* requests are in flight.  A spawned task lives only in the process: it ends
\* where it is and nothing in main or the handlers starts it again.  The store
\* keeps what was committed, and the restarted server takes requests again.
Killed(l) == IF l.pc = "done" THEN l ELSE [l EXCEPT !.pc = "killed"]

ProcessTerminates ==
    /\ \/ checked # EmptyBag
       \/ \E r \in RunIds : orch[r].pc \notin {"done", "killed"}
    /\ orch' = [r \in DOMAIN orch |-> Killed(orch[r])]
    /\ checked' = EmptyBag
    /\ UNCHANGED <<wallet, employees, tax_configs, adjustments, runs, slips,
                   transfers, debits, emails, responses>>

NextCrash ==
    \/ \E o \in TriggerOrgs, p \in Periods : run_payroll(o, p)
    \/ \E r \in TaskIds : process_payroll_background(r)
    \/ ProcessTerminates

\* TriggerSpec with a server process that can end at any moment.
CrashSpec == Init /\ [][NextCrash]_<<vars, responses>>

-----------------------------------------------------------------------------
(* Properties *)

NonFailed == {"pending", "processing", "completed"}

Terminal == {"completed", "failed"}

RunsOf(o, p) ==
    {r \in RunIds : runs[r].organization_id = o /\ runs[r].pay_period = p}

\* The rows of payroll_slips of run r with the given payment status.
SlipsOf(r, st) ==
    {s \in BagToSet(slips) : s.payroll_run_id = r /\ s.payment_status = st}

RECURSIVE SumRows(_, _, _)
SumRows(B, S, fld) ==
    IF S = {} THEN 0
    ELSE LET s == CHOOSE x \in S : TRUE
         IN  CopiesIn(s, B) * s[fld] + SumRows(B, S \ {s}, fld)

RECURSIVE CountRows(_, _)
CountRows(B, S) ==
    IF S = {} THEN 0
    ELSE LET s == CHOOSE x \in S : TRUE
         IN  CopiesIn(s, B) + CountRows(B, S \ {s})

DebitsOf(r) == {d \in BagToSet(debits) : d.payroll_run_id = r}

TransfersOf(r) == {t \in BagToSet(transfers) : t.reference[2] = r}

SameOrg(r1, r2) == runs[r1].organization_id = runs[r2].organization_id

\* r is the only run its organization has had.
OnlyRunOfOrg(r) == \A r2 \in RunIds : r2 # r => ~SameOrg(r, r2)

\* C1: for every (organization, pay period) at most one run is pending,
\* processing or completed, whatever the interleaving of the trigger requests.
C1_AtMostOneNonFailedRun ==
    \A o \in Orgs, p \in Periods :
        Cardinality({r \in RunsOf(o, p) : runs[r].status \in NonFailed}) <= 1

\* C2: the wallet balance of every organization is non-negative in every
\* reachable state, also when runs of one organization interleave.
C2_WalletNonNegative == \A o \in Orgs : wallet[o] >= 0

\* Task r has read the balance for its employee, the transfer was accepted,
\* and the wallet UPDATE for the employee is still to come.
BetweenReadAndDebit(r) == orch[r].pc = "debit"

\* A step in which task r reads the wallet balance.
ReadsWallet(r) ==
    orch[r].pc = "read_wallet" /\ orch'[r].pc \in {"save_failed_slip", "send_transfer"}

\* A step in which task r decrements the wallet.
DebitsWallet(r) == orch[r].pc = "debit" /\ orch'[r].pc = "save_slip"

\* C3: between a run's balance read for an employee and that run's debit for
\* the same employee, no other run of the same organization reads or debits
\* the organization's wallet.
C3_CheckAndDebitSerialized ==
    [][\A r1, r2 \in RunIds :
          (r1 # r2 /\ SameOrg(r1, r2) /\ BetweenReadAndDebit(r1))
              => ~(ReadsWallet(r2) \/ DebitsWallet(r2))]_vars

TotalsMatchSlips(r) ==
    LET S == SlipsOf(r, "success")
    IN  /\ runs[r].total_net = SumRows(slips, S, "net_salary")
        /\ runs[r].total_gross = SumRows(slips, S, "gross_salary")
        /\ runs[r].total_deductions = SumRows(slips, S, "total_deductions")
        /\ runs[r].employee_count = CountRows(slips, S)

\* C4: the totals and the employee count of a completed run are the sums over,
\* and the number of, the slips of the run with payment status success.
C4_TotalsEqualSuccessSlips ==
    \A r \in RunIds : runs[r].status = "completed" => TotalsMatchSlips(r)

\* C5: when a run is completed and nothing else changed the wallet, the wallet
\* balance is the balance at the start of the run minus the net salaries of the
\* run's success slips.
C5_WalletAfterRun ==
    \A r \in RunIds :
        (runs[r].status = "completed" /\ OnlyRunOfOrg(r))
            => wallet[runs[r].organization_id] =
                   orch[r].balance_at_start
                       - SumRows(slips, SlipsOf(r, "success"), "net_salary")

DebitedFor(r, e) ==
    \E d \in DebitsOf(r) : d.employee_id = e

\* C6: no wallet decrement is made on behalf of an employee whose slip in that
\* run is failed, and a task about to save a failed slip has made none.
C6_NoDebitForFailedSlip ==
    /\ \A s \in BagToSet(slips) :
          s.payment_status = "failed" => ~DebitedFor(s.payroll_run_id, s.employee_id)
    /\ \A r \in RunIds :
          (\/ orch[r].pc = "save_failed_slip"
           \/ orch[r].pc = "save_slip" /\ orch[r].payment_status = "failed")
              => ~DebitedFor(r, orch[r].slip_data.employee_id)

C6_Witness ==
    \E s \in BagToSet(slips), r \in RunIds :
        /\ s.payment_status = "failed"
        /\ s.payroll_run_id = r
        /\ s.monnify_reference = NoRef
        /\ \E t \in TransfersOf(r) : t.reference[3] = s.employee_id /\ ~t.ok
        /\ DebitsOf(r) # {}

\* C7: a run that is completed or failed keeps its status in every later step.
C7_TerminalIsFinal ==
    [][\A r \in RunIds :
          runs[r].status \in Terminal => runs'[r].status = runs[r].status]_vars

C7_Witness ==
    \E r1, r2 \in RunIds :
        /\ runs[r1].status = "completed"
        /\ runs[r2].status = "failed"
        /\ \E o \in Orgs, p \in Periods : existing(o, p)

LoadedRows(r) == r \in RunIds /\ orch[r].loaded = "rows"

IsCompleted(r) == r \in RunIds /\ runs[r].status = "completed"

C9_FailedOnlyWithoutEmployees ==
    \A r \in RunIds :
        runs[r].status = "failed" => orch[r].loaded \in {"error", "empty"}

C9_Witness ==
    \E r1, r2 \in RunIds :
        /\ runs[r1].status = "failed" /\ orch[r1].loaded = "error"
        /\ runs[r2].status = "completed" /\ SlipsOf(r2, "failed") # {}

NothingDone(r) ==
    /\ runs[r].total_gross = 0
    /\ runs[r].total_deductions = 0
    /\ runs[r].total_net = 0
    /\ runs[r].employee_count = 0
    /\ SlipsOf(r, "success") = {}
    /\ SlipsOf(r, "failed") = {}
    /\ TransfersOf(r) = {}
    /\ DebitsOf(r) = {}
    /\ OnlyRunOfOrg(r) => wallet[runs[r].organization_id] = orch[r].balance_at_start

-----------------------------------------------------------------------------
(* The trigger as its callers see it *)

allvars == <<vars, responses>>

\* A run of (o, p) is pending, processing or completed.
HasNonFailed(o, p) == \E r \in RunsOf(o, p) : runs[r].status \in NonFailed

\* A step in which a request for (o, p) gets past the SELECT of run_payroll.
PassesGuard(o, p) == CopiesIn(<<o, p>>, checked') > CopiesIn(<<o, p>>, checked)

\* A step in which a caller receives the response resp.
Receives(resp) == resp \in responses' /\ resp \notin responses

\* A step that creates a run or starts a task.
CreatesRun == Len(runs') > Len(runs) \/ Len(orch') > Len(orch)

\* C11: a request for (o, p) that reaches the SELECT of run_payroll while a run
\* of (o, p) is pending, processing or completed does not get past it, and the
\* step that answers it with the payroll-already-processed error creates no
\* run, starts no task and leaves the store as it was.
C11_TriggerRejectedWhileRunExists ==
    [][\A o \in Orgs, p \in Periods :
          /\ HasNonFailed(o, p) => ~PassesGuard(o, p)
          /\ Receives(PayrollAlreadyProcessed(o, p))
                => (HasNonFailed(o, p) /\ ~CreatesRun /\ UNCHANGED vars)]_allvars

C11_Witness ==
    \E o \in Orgs, p \in Periods :
        /\ PayrollAlreadyProcessed(o, p) \in responses
        /\ Len(runs) = 1 /\ Len(orch) = 1
        /\ runs[1].organization_id = o /\ runs[1].pay_period = p
        /\ runs[1].status = "pending"
        /\ checked = EmptyBag

\* Every run of (o, p) is failed (there may be none).
AllFailed(o, p) == \A r \in RunsOf(o, p) : runs[r].status = "failed"

\* C12: a request for (o, p) gets past the SELECT of run_payroll exactly when
\* every run of (o, p) is failed at that moment: it is turned away with the
\* payroll-already-processed error only when some run of (o, p) is not failed,
\* it can take the SELECT step whenever all are failed, and the run an accepted
\* request creates is a new run of (o, p) in status pending.
C12_AcceptedIffAllFailed ==
    /\ [](\A o \in Orgs, p \in Periods :
            (AllFailed(o, p) /\ Len(runs) + BagCardinality(checked) < MaxRuns)
                => ENABLED run_payroll_select(o, p))
    /\ [][\A o \in Orgs, p \in Periods :
            /\ PassesGuard(o, p) => AllFailed(o, p)
            /\ Receives(PayrollAlreadyProcessed(o, p)) => ~AllFailed(o, p)
            /\ \A id \in TaskIds, row \in {NewRun(o, p)} :
                  Receives(Accepted(o, p, id, row))
                     => /\ BagIn(<<o, p>>, checked)
                        /\ id = Len(runs) + 1
                        /\ runs' = Append(runs, row)
                        /\ row.status = "pending"]_allvars

C12_Witness ==
    \E o \in Orgs, p \in Periods, r1, r2 \in RunIds :
        /\ r1 < r2
        /\ r1 \in RunsOf(o, p) /\ r2 \in RunsOf(o, p)
        /\ runs[r1].status = "failed"
        /\ runs[r2].status = "pending"
        /\ \E resp \in responses :
              resp.code = "ACCEPTED" /\ resp.run_id = r2 /\ resp.run.status = "pending"

-----------------------------------------------------------------------------
(* Per-employee outcomes of a run *)

\* No transfer of run r was accepted by the gateway: every employee of the run
\* failed (insufficient balance, unreadable balance or a refused transfer).
NoEmployeePaid(r) == \A t \in TransfersOf(r) : ~t.ok

\* C13: a completed run in which every employee failed has employee_count 0,
\* total_gross, total_deductions and total_net 0, no success slip and no wallet
\* decrement; the wallet of an organization with no other run is as it was
\* when the run started.
C13_AllFailedRunCompletesWithZeros ==
    \A r \in RunIds :
        (runs[r].status = "completed" /\ NoEmployeePaid(r))
            => /\ runs[r].employee_count = 0
               /\ runs[r].total_gross = 0
               /\ runs[r].total_deductions = 0
               /\ runs[r].total_net = 0
               /\ SlipsOf(r, "success") = {}
               /\ DebitsOf(r) = {}
               /\ OnlyRunOfOrg(r)
                     => wallet[runs[r].organization_id] = orch[r].balance_at_start

\* The single employee of o2 needs 200 in 2024-02 and the wallet holds 100.
C13_Witness ==
    \E r \in RunIds :
        /\ runs[r].status = "completed"
        /\ runs[r].organization_id = "o2"
        /\ Len(orch[r].employees) = 1
        /\ TransfersOf(r) = {}
        /\ \E s \in SlipsOf(r, "failed") : s.net_salary > wallet["o2"]
        /\ wallet["o2"] = InitialBalances["o2"]
        /\ runs[r].employee_count = 0

\* The slips of run r for employee e.
SlipsFor(r, e) ==
    {s \in BagToSet(slips) : s.payroll_run_id = r /\ s.employee_id = e}

\* C14: once a run is completed, exactly one slip of the run exists for each
\* employee of the active-employee set the run loaded.
C14_OneSlipPerEmployee ==
    \A r \in RunIds :
        runs[r].status = "completed"
            => \A k \in DOMAIN orch[r].employees :
                  CountRows(slips, SlipsFor(r, orch[r].employees[k].id)) = 1

Totals(row) ==
    <<row.total_gross, row.total_deductions, row.total_net, row.employee_count>>

\* C15: the totals and the employee count of a run are zero while the run is
\* pending, processing or failed, and the only step that changes them is the
\* step that takes the run to completed.
C15_TotalsWrittenOnceAtCompletion ==
    /\ [](\A r \in RunIds :
            runs[r].status \in {"pending", "processing", "failed"}
                => Totals(runs[r]) = <<0, 0, 0, 0>>)
    /\ [][\A r \in RunIds :
            Totals(runs'[r]) # Totals(runs[r])
                => (runs[r].status # "completed" /\ runs'[r].status = "completed")]_vars

C15_Witness ==
    \E r1, r2 \in RunIds :
        /\ runs[r1].status = "completed"
        /\ runs[r1].employee_count = 2
        /\ runs[r1].total_net > 0
        /\ runs[r2].status = "failed"

\* A step in which task r gets the result of send_payslip_email.
EmailReturns(r) == orch[r].pc = "send_email" /\ orch'[r] # orch[r]

\* C16: whether the payslip email is sent or the send fails, the step leaves
\* the run, the slips and the wallet as they are and the task goes on to the
\* next employee (or to the final UPDATE after the last one): the two outcomes
\* lead to the same state, so everything that follows is the same.
C16_EmailOutcomeChangesNothing ==
    [][\A r \in RunIds :
          EmailReturns(r)
              => /\ orch'[r] = Continue(orch[r])
                 /\ UNCHANGED <<runs, slips, wallet, debits, transfers>>]_vars

C16_Witness ==
    \E r \in RunIds :
        /\ orch[r].pc = "calculate"
        /\ orch[r].i = 2
        /\ orch[r].success_count = 1
        /\ \E m \in BagToSet(emails) :
              m.payroll_run_id = r /\ m.employee_id = orch[r].employees[1].id

\* C17: the response of an accepted request carries the run in status pending
\* with zero totals, and in the step that returns it the run is pending and
\* its task has not taken a step: the request returns without waiting for the
\* task.
C17_TriggerReturnsPendingRun ==
    /\ [](\A resp \in responses :
            resp.code = "ACCEPTED"
                => /\ resp.run.status = "pending"
                   /\ Totals(resp.run) = <<0, 0, 0, 0>>
                   /\ resp.run_id \in RunIds)
    /\ [][\A resp \in responses' \ responses :
            resp.code = "ACCEPTED"
                => /\ runs'[resp.run_id].status = "pending"
                   /\ orch'[resp.run_id].pc = "start"
                   /\ \A r \in RunIds : orch'[r] = orch[r] /\ runs'[r] = runs[r]]_allvars

\* Both requests have returned; one run is still pending, the other processing.
C17_Witness ==
    \E resp1, resp2 \in responses :
        /\ resp1.code = "ACCEPTED" /\ resp2.code = "ACCEPTED"
        /\ resp1.run_id \in RunIds /\ resp2.run_id \in RunIds
        /\ runs[resp1.run_id].status = "pending"
        /\ runs[resp2.run_id].status = "processing"
        /\ checked = EmptyBag

\* The task of run r ended with the process while the run was processing.
KilledWhileProcessing(r) == orch[r].pc = "killed" /\ runs[r].status = "processing"

\* C18: a run whose task ended with the process after the run entered
\* processing and before the final UPDATE stays processing in every later
\* step, its task takes no step, no request for its (organization, pay period)
\* gets past the SELECT of run_payroll, and the answer such a request gets is
\* the payroll-already-processed error.
C18_KilledRunStaysProcessing ==
    /\ [](\A r \in RunIds :
            KilledWhileProcessing(r)
                => ENABLED run_payroll_conflict(runs[r].organization_id,
                                                runs[r].pay_period))
    /\ [][\A r \in RunIds :
            KilledWhileProcessing(r)
                => /\ runs'[r] = runs[r]
                   /\ orch'[r] = orch[r]
                   /\ ~PassesGuard(runs[r].organization_id, runs[r].pay_period)]_allvars

C18_Witness ==
    \E r \in RunIds :
        /\ KilledWhileProcessing(r)
        /\ orch[r].loaded = "rows"
        /\ DebitsOf(r) # {}
        /\ PayrollAlreadyProcessed(runs[r].organization_id, runs[r].pay_period)
               \in responses
        /\ \E r2 \in RunIds : r2 > r /\ runs[r2].status = "completed"

-----------------------------------------------------------------------------
(* Calculation *)

\* The slip figures of a task that has called calculate for its employee, and
\* the figures of every slip row.
CalculatedSlips ==
    {orch[r].slip_data : r \in {t \in RunIds : orch[t].slip_data.employee_id # None}}
        \cup {[f \in DOMAIN NoSlipData |-> s[f]] : s \in BagToSet(slips)}

\* calculate on every employee, pay period and rates the store holds.
StoredCalculations ==
    UNION {{calculate(EmployeeRow(e), AdjustmentsOf(e, p), rates) :
               p \in Periods,
               rates \in {StoredRates(employees[e].organization_id), ZeroRates}} :
           e \in EmployeeIds}

\* C19: the net_salary calculate returns is never negative, and it is 0 when
\* total_deductions exceeds gross_salary.
C19_NetSalaryNonNegative ==
    \A c \in CalculatedSlips \cup StoredCalculations :
        /\ c.net_salary >= 0
        /\ c.total_deductions > c.gross_salary => c.net_salary = 0

C19_Witness ==
    \E r \in RunIds :
        /\ orch[r].pc = "read_wallet"
        /\ orch[r].slip_data.gross_salary > 0
        /\ orch[r].slip_data.total_deductions > orch[r].slip_data.gross_salary
        /\ orch[r].slip_data.paye_tax > 0
        /\ orch[r].slip_data.net_salary = 0

\* The adjustments of employee e tagged with pay period p that are additions.
StoredAdditions(e, p) ==
    {a \in adjustments :
        a.employee_id = e /\ a.pay_period = p /\ a.adjustment_type \in AdditionTypes}

\* C20: for every employee a run has calculated, gross_salary is base_salary
\* plus total_additions, and total_additions is the sum of the adjustments of
\* that employee for the run's pay period that have an addition type.
C20_GrossIsBasePlusAdditions ==
    \A r \in RunIds :
        orch[r].slip_data.employee_id # None
            => LET c == orch[r].slip_data
               IN  /\ c.gross_salary = c.base_salary + c.total_additions
                   /\ c.base_salary = employees[c.employee_id].base_salary
                   /\ c.total_additions =
                          SumAmounts(StoredAdditions(c.employee_id, orch[r].pay_period))

\* No rounding: the component times 100 is the gross salary times the rate.
ExactShare(component, gross_salary, rate) ==
    component * hundred * RateUnit = gross_salary * rate

\* C21: calculate returns each tax component as gross_salary * rate / 100 with
\* nothing rounded away, total_deductions as the sum of the four components and
\* other_deductions, and net_salary as gross_salary - total_deductions when
\* that is not negative; base 300,000 with a 50,000 bonus at 7.5 / 8 / 2.5 /
\* 1.75 gives 350,000, 26,250, 28,000, 8,750, 6,125, 69,125 and 280,875.
C21_DeductionsAndNet ==
    /\ \A e \in EmployeeIds, p \in Periods :
          \A rates \in {StoredRates(employees[e].organization_id), ZeroRates} :
              LET c == calculate(EmployeeRow(e), AdjustmentsOf(e, p), rates)
              IN  /\ ExactShare(c.paye_tax, c.gross_salary, rates.paye_rate)
                  /\ ExactShare(c.pension_deduction, c.gross_salary, rates.pension_rate)
                  /\ ExactShare(c.nhf_deduction, c.gross_salary, rates.nhf_rate)
                  /\ ExactShare(c.nhis_deduction, c.gross_salary, rates.nhis_rate)
                  /\ c.total_deductions =
                         c.paye_tax + c.pension_deduction + c.nhf_deduction
                             + c.nhis_deduction + c.other_deductions
                  /\ c.gross_salary >= c.total_deductions
                        => c.net_salary = c.gross_salary - c.total_deductions
    /\ \A r \in RunIds :
          LET c == orch[r].slip_data
          IN  (/\ c.employee_id = "e1"
               /\ c.base_salary = 300000
               /\ c.total_additions = 50000
               /\ c.other_deductions = 0
               /\ orch[r].tax_config = ScenarioRates)
                  => /\ c.gross_salary = 350000
                     /\ c.paye_tax = 26250
                     /\ c.pension_deduction = 28000
                     /\ c.nhf_deduction = 8750
                     /\ c.nhis_deduction = 6125
                     /\ c.total_deductions = 69125
                     /\ c.net_salary = 280875

C21_Witness ==
    \E r \in RunIds :
        /\ orch[r].pc = "read_wallet"
        /\ orch[r].tax_config = ScenarioRates
        /\ orch[r].slip_data.base_salary = 300000
        /\ orch[r].slip_data.total_additions = 50000
        /\ orch[r].slip_data.other_deductions = 0
        /\ orch[r].slip_data.net_salary = 280875

\* The organization of task r has no tax_configs row.
NoTaxConfig(r) ==
    ~\E c \in tax_configs : c.organization_id = orch[r].organization_id

\* Task r has called calculate for an employee.
Calculated(r) == orch[r].slip_data.employee_id # None

\* The statement of C22 as written: without a tax config every computed
\* net_salary equals the gross_salary.
C22_NetEqualsGross ==
    \A r \in RunIds :
        (NoTaxConfig(r) /\ Calculated(r))
            => /\ orch[r].tax_config = ZeroRates
               /\ orch[r].slip_data.net_salary = orch[r].slip_data.gross_salary

\* C22: when the organization has no tax config the run goes on with all four
\* rates 0 (loading the config changes no run row), the four tax components of
\* every computed slip are 0, total_deductions is other_deductions, and
\* net_salary is gross_salary - other_deductions floored at 0: it equals
\* gross_salary when the employee has no deduction adjustment for the period.
C22_NoTaxConfigMeansZeroRates ==
    /\ [](\A r \in RunIds :
            (NoTaxConfig(r) /\ Calculated(r))
                => LET c == orch[r].slip_data
                   IN  /\ orch[r].tax_config = ZeroRates
                       /\ c.paye_tax = 0
                       /\ c.pension_deduction = 0
                       /\ c.nhf_deduction = 0
                       /\ c.nhis_deduction = 0
                       /\ c.total_deductions = c.other_deductions
                       /\ c.net_salary =
                             IF c.gross_salary >= c.other_deductions
                             THEN c.gross_salary - c.other_deductions ELSE 0
                       /\ (c.other_deductions = 0 /\ c.gross_salary >= 0)
                             => c.net_salary = c.gross_salary)
    /\ [][\A r \in RunIds :
            (/\ r \in DOMAIN orch
             /\ orch[r].pc = "load_tax_config"
             /\ orch'[r].pc # "load_tax_config"
             /\ NoTaxConfig(r))
                => /\ orch'[r].pc = "calculate"
                   /\ orch'[r].tax_config = ZeroRates
                   /\ runs' = runs]_vars

C22_Witness ==
    \E r \in RunIds :
        /\ NoTaxConfig(r)
        /\ orch[r].pc = "read_wallet"
        /\ orch[r].slip_data.other_deductions = 20000
        /\ orch[r].slip_data.gross_salary = 350000
        /\ orch[r].slip_data.net_salary = 330000

\* Nothing of run k concerns employee e: no slip, no transfer request, no debit.
NoPayment(k, e) ==
    /\ \A s \in BagToSet(slips) : ~(s.payroll_run_id = k /\ s.employee_id = e)
    /\ \A t \in BagToSet(transfers) : t.reference # Reference(k, e)
    /\ \A d \in BagToSet(debits) : ~(d.payroll_run_id = k /\ d.employee_id = e)

\* C23: an employee who is inactive while run k does not exist yet never gets
\* a slip, a transfer request or a debit in run k, and a step that deactivates
\* an employee leaves the runs, the slips and the wallet as they were.
C23_DeactivatedEmployeeExcluded ==
    /\ \A e \in EmployeeIds, k \in TaskIds :
          []((~employees[e].is_active /\ Len(runs) < k) => []NoPayment(k, e))
    /\ [][employees' # employees
            => /\ runs' = runs
               /\ slips' = slips
               /\ wallet' = wallet
               /\ transfers' = transfers
               /\ debits' = debits]_vars

C23_Witness ==
    /\ ~employees["e2"].is_active
    /\ Len(runs) = 2
    /\ \E s \in BagToSet(slips) : s.payroll_run_id = 1 /\ s.employee_id = "e2"
    /\ \E s \in BagToSet(slips) : s.payroll_run_id = 2 /\ s.employee_id = "e1"
    /\ orch[2].pc = "done"
    /\ orch[2].loaded = "rows"
    /\ NoPayment(2, "e2")

\* The step adds a slip of run r for the task's employee with the given status
\* and gateway reference.
SlipAdded(r, st, reference) ==
    \E s \in BagToSet(slips') :
        /\ s.payroll_run_id = r
        /\ s.employee_id = orch[r].slip_data.employee_id
        /\ s.payment_status = st
        /\ s.monnify_reference = reference
        /\ CopiesIn(s, slips') = CopiesIn(s, slips) + 1

\* The task goes on to its next employee, or to the final UPDATE after the last.
GoesOn(r) ==
    \/ orch'[r].pc = "calculate" /\ orch'[r].i = orch[r].i + 1
    \/ orch'[r].pc = "finalize" /\ orch[r].i = Len(orch[r].employees)

\* C24: an employee whose net_salary exceeds the wallet balance read gets no
\* transfer request and no debit, a failed slip without gateway reference is
\* stored for the employee, and the task goes on to the next employee.
C24_InsufficientBalanceFailedSlip ==
    /\ [](\A r \in RunIds :
            orch[r].pc = "save_failed_slip"
                => NoPayment(r, orch[r].slip_data.employee_id))
    /\ [][\A r \in RunIds :
            (orch[r].pc = "save_failed_slip" /\ orch'[r].pc # "save_failed_slip")
                => /\ SlipAdded(r, "failed", NoRef)
                   /\ wallet' = wallet
                   /\ transfers' = transfers
                   /\ debits' = debits
                   /\ GoesOn(r)]_vars

\* A failed payment: the Err arm of the transfer match has been taken.
PaymentFailed(r) ==
    orch[r].pc = "save_slip" /\ orch[r].payment_status = "failed"

\* C25: when the transfer returns an error no debit is made, a failed slip
\* without gateway reference is stored, the totals and the success count stay
\* as they are, no notification is sent and the task goes on.
C25_GatewayErrorFailedSlip ==
    /\ [][\A r \in RunIds :
            (orch[r].pc = "send_transfer" /\ orch'[r].payment_status = "failed")
                => /\ orch'[r].pc = "save_slip"
                   /\ orch'[r].monnify_ref = NoRef
                   /\ wallet' = wallet
                   /\ debits' = debits]_vars
    /\ [][\A r \in RunIds :
            (PaymentFailed(r) /\ orch'[r].pc # "save_slip")
                => /\ SlipAdded(r, "failed", NoRef)
                   /\ wallet' = wallet
                   /\ debits' = debits
                   /\ emails' = emails
                   /\ orch'[r].total_gross = orch[r].total_gross
                   /\ orch'[r].total_deductions = orch[r].total_deductions
                   /\ orch'[r].total_net = orch[r].total_net
                   /\ orch'[r].success_count = orch[r].success_count
                   /\ GoesOn(r)]_vars

\* The debits made for employee e in run r.
DebitCount(r, e) ==
    LET D == {d \in BagToSet(debits) : d.payroll_run_id = r /\ d.employee_id = e}
    IN  SumRows(debits, D, "amount")

\* C26: when the transfer succeeds the wallet is decreased by the employee's
\* net_salary, once, and a success slip carrying the gateway's reference is
\* stored for the employee.
C26_GatewaySuccessDebitAndSlip ==
    /\ [][\A r \in RunIds :
            (orch[r].pc = "send_transfer" /\ orch'[r].payment_status = "success")
                => /\ orch'[r].pc = "debit"
                   /\ orch'[r].monnify_ref =
                         BodyReference(Reference(r, orch[r].slip_data.employee_id))]_vars
    /\ [][\A r \in RunIds :
            (orch[r].pc = "debit" /\ orch'[r].pc # "debit")
                => /\ wallet' = [wallet EXCEPT ![orch[r].organization_id] =
                                     @ - orch[r].slip_data.net_salary]
                   /\ orch'[r].pc = "save_slip"
                   /\ orch'[r].payment_status = "success"]_vars
    /\ [][\A r \in RunIds :
            (/\ orch[r].pc = "save_slip"
             /\ orch[r].payment_status = "success"
             /\ orch'[r].pc # "save_slip")
                => /\ SlipAdded(r, "success", orch[r].monnify_ref)
                   /\ wallet' = wallet
                   /\ DebitCount(r, orch[r].slip_data.employee_id)
                         = orch[r].slip_data.net_salary]_vars

\* The request references sent to the gateway so far.
SentReferences == {t.reference : t \in BagToSet(transfers)}

\* C27: every transfer request carries a reference no other request carries:
\* a task sends one request per visit of an employee, with a reference not sent
\* before, does not send it again, and distinct (run, employee) pairs have
\* distinct references.
C27_ReferencesUnique ==
    /\ [](/\ \A t \in BagToSet(transfers) : CopiesIn(t, transfers) = 1
          /\ \A t1, t2 \in BagToSet(transfers) :
                t1.reference = t2.reference => t1 = t2
          /\ \A r1, r2 \in RunIds, e1, e2 \in EmployeeIds :
                <<r1, e1>> # <<r2, e2>> => Reference(r1, e1) # Reference(r2, e2))
    /\ [][transfers' # transfers
            => \E r \in RunIds :
                  /\ orch[r].pc = "send_transfer"
                  /\ orch'[r].pc \in {"debit", "save_slip"}
                  /\ BagCardinality(transfers') = BagCardinality(transfers) + 1
                  /\ \E t \in BagToSet(transfers') :
                        /\ t.reference \notin SentReferences
                        /\ transfers' = transfers (+) SetToBag({t})]_vars

C27_Witness ==
    \E r1, r2 \in RunIds, t1, t2 \in BagToSet(transfers) :
        /\ r1 # r2
        /\ SameOrg(r1, r2)
        /\ runs[r1].pay_period = runs[r2].pay_period
        /\ t1.reference = <<"PAY", r1, "e1">>
        /\ t2.reference = <<"PAY", r2, "e1">>
        /\ \E t3 \in BagToSet(transfers) : t3.reference = <<"PAY", r1, "e2">>

\* The positions of a task between the wallet read of an employee and the end
\* of that employee's iteration.
InFlight == {"read_wallet", "save_failed_slip", "send_transfer", "debit",
             "save_slip", "send_email"}

\* What run r has recorded for employee e: slips, transfer requests, debits.
PaymentsOf(r, e) ==
    <<{<<s, CopiesIn(s, slips)>> : s \in SlipsFor(r, e)},
      {<<t, CopiesIn(t, transfers)>> :
          t \in {u \in BagToSet(transfers) : u.reference = <<"PAY", r, e>>}},
      {<<d, CopiesIn(d, debits)>> :
          d \in {u \in BagToSet(debits) : u.payroll_run_id = r /\ u.employee_id = e}}>>

\* C28: a run handles one employee at a time: between the wallet read and the
\* end of the iteration the task stays on the employee at its loop index,
\* employees later in the list have nothing recorded, and every slip, transfer
\* request or debit of the run is made for the employee at the loop index.
C28_OneEmployeeAtATime ==
    /\ [](\A r \in RunIds :
            /\ orch[r].pc \in InFlight
                  => /\ orch[r].i \in DOMAIN orch[r].employees
                     /\ orch[r].slip_data.employee_id = orch[r].employees[orch[r].i].id
            /\ \A k \in DOMAIN orch[r].employees :
                  k > orch[r].i => NoPayment(r, orch[r].employees[k].id))
    /\ [][\A r \in RunIds :
            (orch[r].pc \in InFlight /\ orch'[r].pc \in InFlight)
                => /\ orch'[r].i = orch[r].i
                   /\ orch'[r].slip_data = orch[r].slip_data]_vars
    /\ [][(slips' # slips \/ transfers' # transfers \/ debits' # debits)
            => \A r \in RunIds, e \in EmployeeIds :
                  PaymentsOf(r, e)' # PaymentsOf(r, e)
                      => /\ orch[r].pc \in InFlight
                         /\ e = orch[r].employees[orch[r].i].id]_vars

C28_Witness ==
    \E r \in RunIds :
        /\ orch[r].pc = "debit"
        /\ orch[r].i = 2
        /\ orch[r].slip_data.employee_id = "e2"
        /\ SlipsFor(r, "e1") # {}
        /\ \E t \in BagToSet(transfers) : t.reference = <<"PAY", r, "e2">>

\* Nothing has been recorded for run r: no slip, transfer request, debit or
\* notification.
NothingRecorded(r) ==
    /\ \A s \in BagToSet(slips) : s.payroll_run_id # r
    /\ \A t \in BagToSet(transfers) : t.reference[2] # r
    /\ \A d \in BagToSet(debits) : d.payroll_run_id # r
    /\ \A m \in BagToSet(emails) : m.payroll_run_id # r

Paid(r, e) ==
    \E t \in BagToSet(transfers) : t.reference = <<"PAY", r, e>> /\ t.ok

\* C30: a payslip notification is attempted only for an employee whose
\* transfer the gateway accepted and whose success slip is stored, never for an
\* employee with a failed slip, and once at most per employee and run.
C30_NotificationOnlyAfterSuccess ==
    /\ [](\A m \in BagToSet(emails) :
            /\ CopiesIn(m, emails) = 1
            /\ Paid(m.payroll_run_id, m.employee_id)
            /\ \A s \in SlipsFor(m.payroll_run_id, m.employee_id) :
                  s.payment_status = "success"
            /\ SlipsFor(m.payroll_run_id, m.employee_id) # {})
    /\ [][emails' # emails
            => \E r \in RunIds :
                  /\ orch[r].pc = "send_email"
                  /\ orch[r].payment_status = "success"
                  /\ orch'[r].pc # "send_email"
                  /\ LET m == [payroll_run_id |-> r,
                               employee_id |-> orch[r].slip_data.employee_id]
                     IN  /\ CopiesIn(m, emails) = 0
                         /\ emails' = emails (+) SetToBag({m})]_vars

C30_Witness ==
    \E r \in RunIds :
        /\ runs[r].status = "completed"
        /\ CopiesIn([payroll_run_id |-> r, employee_id |-> "e1"], emails) = 1
        /\ CopiesIn([payroll_run_id |-> r, employee_id |-> "e2"], emails) = 0
        /\ \E s \in SlipsFor(r, "e2") : s.payment_status = "failed"
        /\ \E s \in SlipsFor(r, "e1") : s.payment_status = "success"

\* C31: every stored slip has payment status success or failed, and it
\* carries a gateway reference exactly when its status is success.
C31_ReferenceIffSuccess ==
    \A s \in BagToSet(slips) :
        /\ s.payment_status \in {"success", "failed"}
        /\ s.monnify_reference # NoRef <=> s.payment_status = "success"

C31_Witness ==
    \E s1, s2 \in BagToSet(slips), r \in RunIds :
        /\ s1.payroll_run_id = r
        /\ s1.payment_status = "success"
        /\ s1.monnify_reference = <<"MNFY", <<"PAY", r, s1.employee_id>>>>
        /\ s2.payment_status = "failed"
        /\ s2.monnify_reference = NoRef
        /\ \E t \in BagToSet(transfers) :
              t.reference = <<"PAY", s2.payroll_run_id, s2.employee_id>> /\ ~t.ok

\* What the adjustment a adds to total_additions and to other_deductions of
\* calculate over the rows A.
AddedByRow(e, A, a) ==
    LET with == calculate(EmployeeRow(e), A, ZeroRates)
        without == calculate(EmployeeRow(e), A \ {a}, ZeroRates)
    IN  [additions |-> with.total_additions - without.total_additions,
         deductions |-> with.other_deductions - without.other_deductions]

\* C32: every adjustment passed to calculate adds its amount to exactly one of
\* total_additions and other_deductions: to total_additions when its type is
\* overtime, bonus, commission or other_addition, to other_deductions when it
\* is late_day_deduction, unpaid_leave_deduction or other_deduction; the slip
\* a run computes carries these sums.
C32_TypesPartitioned ==
    /\ \A e \in EmployeeIds, p \in Periods :
          LET A == AdjustmentsOf(e, p)
          IN  \A a \in A :
                 LET d == AddedByRow(e, A, a)
                 IN  IF a.adjustment_type
                          \in {"overtime", "bonus", "commission", "other_addition"}
                     THEN d.additions = a.amount /\ d.deductions = 0
                     ELSE /\ a.adjustment_type \in {"late_day_deduction",
                                  "unpaid_leave_deduction", "other_deduction"}
                          /\ d.additions = 0
                          /\ d.deductions = a.amount
    /\ \A r \in RunIds :
          Calculated(r)
              => LET c == orch[r].slip_data
                     full == calculate(EmployeeRow(c.employee_id),
                                 AdjustmentsOf(c.employee_id, orch[r].pay_period),
                                 ZeroRates)
                 IN  \/ /\ c.total_additions = full.total_additions
                        /\ c.other_deductions = full.other_deductions
                     \/ c.total_additions = 0 /\ c.other_deductions = 0

C32_Witness ==
    \E r \in RunIds :
        /\ adjustments = PartitionAdjustments
        /\ orch[r].pc = "read_wallet"
        /\ orch[r].slip_data.employee_id = "e1"
        /\ orch[r].slip_data.total_additions = 71
        /\ orch[r].slip_data.other_deductions = 56

\* C33: every stored employee has a base salary of at least 0, and every
\* create_employee or set_base_salary request with a negative base salary is
\* answered with a validation error.
C33_BaseSalaryNonNegative ==
    /\ \A e \in EmployeeIds :
          employees[e].organization_id # None => employees[e].base_salary >= 0
    /\ \A x \in responses : x.negative => x.code = "Validation"

\* The rows of tax_configs of the organization o.
ConfigsOf(o) == {c \in tax_configs : c.organization_id = o}

\* The rate lies between 0 and 100 percent.
InPercentRange(rate) == rate >= 0 /\ rate <= 100 * RateUnit

\* C34: each organization has at most one tax config, each stored rate lies
\* in [0, 100], and the store changes only by an accepted request: one
\* organization's config is replaced by rates in range and the request is
\* answered OK, so a request answered with a validation error changes nothing.
C34_TaxConfigInRange ==
    /\ [](/\ \A o \in Orgs : Cardinality(ConfigsOf(o)) <= 1
          /\ \A c \in tax_configs :
                /\ InPercentRange(c.paye_rate)
                /\ InPercentRange(c.pension_rate)
                /\ InPercentRange(c.nhf_rate)
                /\ InPercentRange(c.nhis_rate))
    /\ [][tax_configs' # tax_configs
            => \E o \in Orgs :
                  /\ \A o2 \in Orgs \ {o} : ConfigsOf(o2)' = ConfigsOf(o2)
                  /\ Cardinality(ConfigsOf(o)') = 1
                  /\ responses' = responses \cup {TaxConfigResponse(o, "OK")}]_allvars

C34_Witness ==
    /\ \E c \in ConfigsOf("o1") : c.paye_rate = 100 * RateUnit
    /\ \E c \in ConfigsOf("o2") : c.nhis_rate = 175
    /\ TaxConfigResponse("o1", "Validation") \in responses
    /\ TaxConfigResponse("o1", "OK") \in responses
    /\ TaxConfigResponse("o2", "OK") \in responses
    /\ ConfigsOf("o3") = {}

\* C35: a run never has two slips for one employee: a task exists for a run
\* exactly when the run row does, it is created in the step that inserts the
\* row, its loop index only moves forward by one, and the loaded employees are
\* distinct.
C35_SlipsUniquePerRunAndEmployee ==
    /\ [](/\ DOMAIN orch = DOMAIN runs
          /\ \A r \in RunIds :
                /\ \A e \in EmployeeIds : CountRows(slips, SlipsFor(r, e)) <= 1
                /\ \A j, k \in DOMAIN orch[r].employees :
                      j # k => orch[r].employees[j].id # orch[r].employees[k].id)
    /\ [][/\ orch' # orch /\ Len(orch') # Len(orch)
               => /\ Len(runs') = Len(runs) + 1
                  /\ Len(orch') = Len(runs')
                  /\ orch'[Len(orch')].pc = "start"
          /\ \A r \in RunIds :
                /\ orch'[r].i >= orch[r].i
                /\ orch'[r].i <= orch[r].i + 1
                /\ orch[r].loaded = "rows" => orch'[r].employees = orch[r].employees]_vars

C35_Witness ==
    \E r1, r2 \in RunIds :
        /\ r1 # r2
        /\ SameOrg(r1, r2)
        /\ runs[r1].pay_period = runs[r2].pay_period
        /\ CountRows(slips, SlipsFor(r1, "e1")) = 1
        /\ CountRows(slips, SlipsFor(r1, "e2")) = 1
        /\ CountRows(slips, SlipsFor(r2, "e1")) = 1
        /\ runs[r1].status = "completed"

\* The runs of the organization o.
RunsOfOrg(o) == {r \in RunIds : runs[r].organization_id = o}

\* What has been taken from the wallet of o since the initial store.
TotalDebited(o) == InitialBalances[o] - wallet[o]

\* The amounts of the transfers the gateway accepted for the runs of o.
TotalAccepted(o) ==
    SumRows(transfers,
            {t \in BagToSet(transfers) : t.ok /\ t.reference[2] \in RunsOfOrg(o)},
            "amount")

\* The tasks of o between an accepted transfer and its wallet UPDATE.
AwaitingDebit(o) == {r \in RunsOfOrg(o) : orch[r].pc = "debit"}

RECURSIVE SumNet(_)
SumNet(R) ==
    IF R = {} THEN 0
    ELSE LET r == CHOOSE x \in R : TRUE
         IN  orch[r].slip_data.net_salary + SumNet(R \ {r})

WalletReadFails(r) ==
    /\ orch[r].pc = "read_wallet"
    /\ orch'[r].pc \notin {"read_wallet", "save_failed_slip", "send_transfer"}

Range(f) == {f[x] : x \in DOMAIN f}

\* Task r has read its tax config.
RatesLoaded(r) ==
    orch[r].loaded = "rows" /\ orch[r].pc \notin {"load_tax_config", "mark_failed"}

\* C38: the employee rows a task has loaded are the active employees of the
\* organization, with their base salaries, at the moment of the read; neither
\* they nor the rates the task has loaded change afterwards, whatever happens
\* to the store; every slip of the run is for a loaded employee, carries the
\* loaded base salary and has its tax components computed with the loaded rates.
C38_RunWorksOnSnapshot ==
    /\ [][\A r \in RunIds :
            /\ (orch[r].pc = "fetch_employees" /\ orch'[r].loaded = "rows")
                  => /\ {row.id : row \in Range(orch'[r].employees)}
                          = {e \in EmployeeIds :
                                /\ employees[e].organization_id = orch[r].organization_id
                                /\ employees[e].is_active}
                     /\ \A row \in Range(orch'[r].employees) :
                           row.base_salary = employees[row.id].base_salary
            /\ orch[r].loaded = "rows" => orch'[r].employees = orch[r].employees
            /\ RatesLoaded(r) => orch'[r].tax_config = orch[r].tax_config]_allvars
    /\ [](\A r \in RunIds, s \in BagToSet(slips) :
            s.payroll_run_id = r
                => /\ \E row \in Range(orch[r].employees) :
                         row.id = s.employee_id /\ row.base_salary = s.base_salary
                   /\ ExactShare(s.paye_tax, s.gross_salary, orch[r].tax_config.paye_rate)
                   /\ ExactShare(s.pension_deduction, s.gross_salary,
                                 orch[r].tax_config.pension_rate)
                   /\ ExactShare(s.nhf_deduction, s.gross_salary, orch[r].tax_config.nhf_rate)
                   /\ ExactShare(s.nhis_deduction, s.gross_salary,
                                 orch[r].tax_config.nhis_rate))

C38_Witness ==
    \E r \in RunIds, s1, s2 \in BagToSet(slips) :
        /\ s1.payroll_run_id = r
        /\ s1.employee_id = "e1"
        /\ s1.base_salary = 300
        /\ employees["e1"].base_salary = SnapshotSalary
        /\ s2.payroll_run_id = r
        /\ s2.employee_id = "e2"
        /\ ~employees["e2"].is_active
        /\ orch[r].tax_config.pension_rate = 5 * RateUnit
        /\ StoredRates("o1") = SnapshotRates

\* The task of run r takes a step.
TaskSteps(r) == orch'[r] # orch[r]

\* The rows a step adds to payroll_slips.
SlipsAdded == {s \in BagToSet(slips') : CopiesIn(s, slips') > CopiesIn(s, slips)}

\* C39: runs are isolated per organization.  A step of the task of a run of
\* organization A leaves every other organization's wallet balance as it is,
\* decides between "insufficient balance" and the transfer on A's balance, and
\* adds slips only for A's run and A's employees; a step of the trigger handler
\* changes no wallet and no slip; and a trigger of B is answered with
\* PayrollAlreadyProcessed only when B itself has a run of that period that is
\* not failed, whatever runs A has.
C39_RunsIsolatedPerOrganization ==
    /\ [][\A r \in RunIds :
             TaskSteps(r) =>
                LET a == runs[r].organization_id
                    net_salary == orch[r].slip_data.net_salary
                IN  /\ \A b \in Orgs \ {a} : wallet'[b] = wallet[b]
                    /\ orch[r].pc = "read_wallet" /\ orch'[r].pc = "save_failed_slip"
                          => wallet[a] < net_salary
                    /\ orch[r].pc = "read_wallet" /\ orch'[r].pc = "send_transfer"
                          => wallet[a] >= net_salary
                    /\ \A s \in SlipsAdded :
                          /\ s.payroll_run_id = r
                          /\ s.organization_id = a
                          /\ employees[s.employee_id].organization_id = a]_allvars
    /\ [][(checked' # checked \/ responses' # responses \/ Len(runs') > Len(runs))
             => wallet' = wallet /\ slips' = slips]_allvars
    /\ [][\A resp \in responses' \ responses :
             resp.code = "UNPROCESSABLE_ENTITY" =>
                \E r \in RunIds :
                    /\ runs[r].organization_id = resp.organization_id
                    /\ runs[r].pay_period = resp.pay_period
                    /\ runs[r].status # "failed"]_allvars

\* Both organizations were admitted for the same period, both runs completed,
\* each paid its own employees out of its own wallet, and a second trigger of
\* o2 was rejected.
C39_Witness ==
    /\ Len(runs) = 2
    /\ {runs[1].organization_id, runs[2].organization_id} = IsolationOrgs
    /\ \A r \in RunIds : runs[r].status = "completed"
    /\ \A o \in IsolationOrgs : wallet[o] < InitialBalances[o]
    /\ \A o \in IsolationOrgs :
          \E s \in BagToSet(slips) :
             s.organization_id = o /\ s.payment_status = "success"
    /\ \A o \in IsolationOrgs :
          \E resp \in responses : resp.code = "ACCEPTED" /\ resp.organization_id = o
    /\ \E resp \in responses :
          resp.code = "UNPROCESSABLE_ENTITY" /\ resp.organization_id = "o2"

\* A step in which fund_wallet answers.
FundWalletAnswers ==
    \E resp \in responses' \ responses : resp.handler = "fund_wallet"

\* C40: no operation increases a wallet balance.  An organization is registered
\* with balance 0, no step raises the balance of a registered organization,
\* fund_wallet leaves wallet, runs and slips as they are, the only step that
\* changes a stored balance is the task's debit, and so a balance is never
\* above the value it had when the organization entered the store.
C40_WalletNeverIncreases ==
    /\ [][/\ DOMAIN wallet \subseteq DOMAIN wallet'
          /\ \A o \in DOMAIN wallet : wallet'[o] <= wallet[o]
          /\ \A o \in DOMAIN wallet' \ DOMAIN wallet : wallet'[o] = 0]_allvars
    /\ [][FundWalletAnswers => wallet' = wallet /\ runs' = runs /\ slips' = slips]_allvars
    /\ [][(\E o \in DOMAIN wallet : wallet'[o] # wallet[o]) =>
             \E r \in RunIds :
                /\ orch[r].pc = "debit"
                /\ orch'[r].pc = "save_slip"
                /\ orch[r].payment_status = "success"
                /\ wallet' = [wallet EXCEPT ![runs[r].organization_id] =
                                  wallet[runs[r].organization_id]
                                      - orch[r].slip_data.net_salary]]_allvars
    /\ [](\A o \in DOMAIN wallet :
             wallet[o] <= IF o \in RegisteredAtStart THEN InitialBalances[o] ELSE 0)

\* o3 has registered and holds 0, o1 has been given a checkout link for 50
\* and holds what it held less the salary its run has paid.
C40_Witness ==
    /\ "o3" \in DOMAIN wallet
    /\ wallet["o3"] = 0
    /\ OrganizationResponse("fund_wallet", "o1", "OK", 50) \in responses
    /\ \E s \in BagToSet(slips) :
          /\ s.organization_id = "o1"
          /\ s.payment_status = "success"
          /\ s.net_salary > 0
          /\ wallet["o1"] <= InitialBalances["o1"] - s.net_salary

=============================================================================
